---- MODULE Spec2Model ----
(***************************************************************************)
(* A model of the jewelry scraping framework: the job pipeline of          *)
(* app/agents/orchestrator.py with the storage agent and the job record,   *)
(* the crawl pool, the page classifier, the sitemap resolver, the link     *)
(* extraction, the link priority and the product validation of             *)
(* app/agents/crawler.py, the inference agent of app/agents/inference.py   *)
(* and the lookups of app/agents/normalizer.py.                            *)
(*                                                                         *)
(* The program runs on one asyncio event loop: a coroutine runs without    *)
(* interruption up to its next await that really suspends (a network       *)
(* fetch, a database round trip, an AI call).  Every action below is one   *)
(* such uninterrupted stretch of code.  asyncio.Lock and asyncio.Semaphore *)
(* acquire without suspending when they are free, and no lock of the       *)
(* program is held across an await, so "async with lock:" bodies are part  *)
(* of the action that contains them.                                       *)
(***************************************************************************)
EXTENDS Integers, Sequences, FiniteSets, TLC

\* ------------------------------------------------------------------ bounds
\* Largest number of product candidates one crawl hands to the pipeline.
MaxProducts == 3
\* Largest storage cap (max_products_to_process) the model tries; 0 disables it.
MaxCap == 2
\* Largest number of rows earlier runs have left in the jewels table.
MaxPrior == 2

\* ------------------------------------------------------------------- state
\* the job pipeline
VARIABLES
    max_products,   \* settings.max_products_to_process
    job_status,     \* the persisted jobs.status column
    error_message,  \* the persisted jobs.error_message column
    stats_json,     \* the persisted jobs.stats_json column
    stats,          \* the local dict stats of run_scraping_pipeline, or Unbound
    ppc,            \* where run_scraping_pipeline is
    exc,            \* the origin of the exception the pipeline's handler caught
    products,       \* the list crawler.crawl returned: source URLs
    crawl_note,     \* whether some page fetch failed inside the crawl
    tpc,            \* where each process_product task is
    tres,           \* how each process_product task ended
    sem,            \* free permits of the product semaphore
    jewels,         \* the rows of the jewels table
    notified        \* what send_job_notification returned

pipeVars == <<max_products, job_status, error_message, stats_json, stats, ppc,
              exc, products, crawl_note, tpc, tres, sem, jewels, notified>>

\* the classifier on one page
VARIABLES
    cls_in,         \* the page handed to _enhanced_classify_page, or bare scores
    cls_out         \* the scores and the PageType computed for it

clsVars == <<cls_in, cls_out>>

\* The crawl pool of IntelligentCrawler._intelligent_crawl: the page budget,
\* what the sitemap, the homepage and the LLM gave before the pool started,
\* the pattern store, the visited set, the frontier, the workers of the current
\* batch, the semaphore's free slots, the products found and the position of
\* the batch loop; fetched, refetched, readded and verdicts record what the
\* workers did, dispatch_log the tasks in the order they entered the frontier
\* with the batch each left it in, and unlocked the shared state that was
\* written outside "async with self.lock".
VARIABLES max_pages, product_urls, category_urls, llm_patterns, product_url_patterns,
          visited_urls, priority_queue, workers, semaphore, crawl_products, cpc,
          fetched, refetched, readded, verdicts, dispatch_log, unlocked

crawlVars == <<max_pages, product_urls, category_urls, llm_patterns, product_url_patterns,
               visited_urls, priority_queue, workers, semaphore, crawl_products, cpc,
               fetched, refetched, readded, verdicts, dispatch_log, unlocked>>

\* The sitemap phase of IntelligentCrawler._crawl_sitemap: the site's sitemap
\* documents, the next well-known path to probe and the phase's position; the
\* phase fills product_urls. sm_found, sm_failed and sm_fetches record the
\* well-known documents that were read, the fetches that failed and the
\* number of fetches.
VARIABLES sitemaps, sm_idx, spc, sm_found, sm_failed, sm_fetches

smVars == <<sitemaps, sm_idx, spc, sm_found, sm_failed, sm_fetches>>

\* One call of a function that shares no state with the rest of the program
\* (the inference agent's infer_attributes with the step of process_product
\* that consumes its result, a lookup of the normalizer, the priority of a
\* discovered link): the arguments and where the call is with its result.
VARIABLES call_in, call_out

callVars == <<call_in, call_out>>

vars == <<pipeVars, clsVars, crawlVars, smVars, callVars>>

\* what the steps of one part of the program leave alone
notPipe == <<clsVars, crawlVars, smVars, callVars>>
notCls == <<pipeVars, crawlVars, smVars, callVars>>
notCrawl == <<pipeVars, clsVars, smVars, callVars>>
notCall == <<pipeVars, clsVars, crawlVars, smVars>>
\* what the sitemap phase leaves alone
notSitemap == <<pipeVars, clsVars, callVars, max_pages, category_urls, llm_patterns,
                product_url_patterns, visited_urls, priority_queue, workers, semaphore,
                crawl_products, cpc, fetched, refetched, readded, verdicts,
                dispatch_log, unlocked>>

Unbound == [unbound |-> TRUE]
NoStats == [pages_crawled |-> 0, products_found |-> 0, products_stored |-> 0, errors |-> 0]

\* JobStatus
QUEUED == "queued"
RUNNING == "running"
SUCCESS == "success"
FAILED == "failed"

\* getattr(settings, 'max_concurrent_products', 3): Settings has no such field
max_concurrent_products == 3

\* Source URLs of candidates are named by numbers
ProductUrls == 1..MaxProducts

\* A row of the jewels table: its source URL and who inserted it
Row(u, who) == [source_url |-> u, origin |-> who]

\* a lookup that never finds the row
_is_duplicate_never(table, u) == FALSE

\* StorageAgent._is_duplicate: a row with this source URL exists
_is_duplicate(table, u) == \E r \in table : r.source_url = u

\* the UNIQUE constraint on jewels.source_url, checked by the database at commit
UniqueViolation(table, u) == \E r \in table : r.source_url = u

\* a cap check that lets every task through
CapReachedNever(cap, stored) == FALSE

\* the cap check of process_product, under the lock
CapReached(cap, stored) == cap > 0 /\ stored >= cap

\* The dispatch loop of run_scraping_pipeline: the number of coroutines created.
\* No coroutine runs before gather, so the counter read by the loop is the one
\* at the time of the loop.
RECURSIVE DispatchCount(_, _, _, _)
DispatchCount(idx, n, cap, stored) ==
    IF idx > n THEN n
    ELSE IF CapReached(cap, stored) THEN idx - 1
    ELSE DispatchCount(idx + 1, n, cap, stored)

\* a notification that lets its errors escape
NotifyOutcomesRaising == {"sent", "not_sent", "raise"}

\* What send_job_notification can do: it returns True or False; every error
\* of building or sending the mail is caught inside it.
NotifyOutcomes == {"sent", "not_sent"}

\* a handler that finds stats bound whenever it runs
HandlerCanPersistAlways(st) == TRUE

\* The handler's "job.stats_json = stats" before its commit: a NameError when
\* the exception came before stats was bound
HandlerCanPersist(st) == st # Unbound

\* ---- the parts of the state a specification does not exercise stay idle
PipeIdle ==
    /\ max_products = 0 /\ job_status = QUEUED /\ error_message = "none"
    /\ stats_json = NoStats /\ stats = Unbound /\ ppc = "idle" /\ exc = "none"
    /\ products = <<>> /\ crawl_note = "none" /\ tpc = <<>> /\ tres = <<>>
    /\ sem = max_concurrent_products /\ jewels = {} /\ notified = "none"

ClsIdle == cls_in = [kind |-> "idle"] /\ cls_out = [done |-> FALSE]

CrawlIdle ==
    /\ max_pages = 0 /\ product_urls = {} /\ category_urls = {} /\ llm_patterns = <<>>
    /\ product_url_patterns = <<>> /\ visited_urls = {} /\ priority_queue = <<>>
    /\ workers = <<>> /\ semaphore = 0 /\ crawl_products = <<>> /\ cpc = "idle"
    /\ fetched = {} /\ refetched = {} /\ readded = {} /\ verdicts = {}
    /\ dispatch_log = <<>> /\ unlocked = {}

SitemapIdle ==
    /\ sitemaps = <<>> /\ sm_idx = 0 /\ spc = "idle"
    /\ sm_found = {} /\ sm_failed = {} /\ sm_fetches = 0

CallIdle == call_in = [fn |-> "idle"] /\ call_out = [pc |-> "idle"]

PipeInit ==
    /\ max_products \in 0..MaxCap
    /\ job_status = QUEUED
    /\ error_message = "none"
    /\ stats_json = NoStats
    /\ stats = Unbound
    /\ ppc = "start"
    /\ exc = "none"
    /\ products = <<>>
    /\ crawl_note = "none"
    /\ tpc = <<>>
    /\ tres = <<>>
    /\ sem = max_concurrent_products
    /\ jewels \in SUBSET {Row(u, "prior") : u \in 1..MaxPrior}
    /\ notified = "none"
    /\ ClsIdle /\ CrawlIdle /\ SitemapIdle /\ CallIdle

\* the pipeline's except handler is entered with exception e
Raise(origin) ==
    /\ ppc' = "handler"
    /\ exc' = origin

\* run_scraping_pipeline up to the crawl: load the job, mark it running,
\* initialise stats and the agents
PipeStart ==
    /\ ppc = "start"
    /\ \/ \* select or commit raises: nothing persisted, stats not yet bound
          /\ Raise("db")
          /\ UNCHANGED <<job_status, stats>>
       \/ \* commit succeeds, stats bound, an agent constructor raises
          /\ job_status' = RUNNING
          /\ stats' = NoStats
          /\ Raise("init")
       \/ /\ job_status' = RUNNING
          /\ stats' = NoStats
          /\ ppc' = "crawl"
          /\ UNCHANGED exc
    /\ UNCHANGED <<max_products, error_message, stats_json, products, crawl_note,
                   tpc, tres, sem, jewels, notified>>
    /\ UNCHANGED notPipe

\* crawler.crawl returns at most `most` candidates or raises; then the
\* dispatch loop creates the tasks
PipeCrawl(most) ==
    /\ ppc = "crawl"
    /\ \/ /\ Raise("crawl")
          /\ UNCHANGED <<stats, products, crawl_note, tpc, tres>>
       \/ \E n \in 0..most, note \in {"none", "fetch_failed"} :
            LET k == DispatchCount(1, n, max_products, stats.products_stored)
                \* a page whose fetch failed stays in visited_urls
                other_pages == IF note = "fetch_failed" THEN 1 ELSE 0 IN
            /\ products' = [i \in 1..n |-> i]
            /\ crawl_note' = note
            /\ stats' = [stats EXCEPT !.pages_crawled = n + other_pages,
                                      !.products_found = n]
            /\ tpc' = [i \in 1..k |-> "created"]
            /\ tres' = [i \in 1..k |-> "pending"]
            /\ ppc' = "gather"
            /\ UNCHANGED exc
    /\ UNCHANGED <<max_products, job_status, error_message, stats_json, sem,
                   jewels, notified>>
    /\ UNCHANGED notPipe

\* a task past the cap check returns: it leaves the semaphore
Return(i, how) ==
    /\ tpc' = [tpc EXCEPT ![i] = "done"]
    /\ tres' = [tres EXCEPT ![i] = how]
    /\ sem' = sem + 1

\* the except branch of process_product
CountError == stats' = [stats EXCEPT !.errors = @ + 1]

\* process_product from the semaphore to the await of infer_attributes
TaskEnter(i) ==
    /\ ppc = "gather"
    /\ tpc[i] = "created"
    /\ sem > 0
    /\ \/ /\ CapReached(max_products, stats.products_stored)
          /\ tpc' = [tpc EXCEPT ![i] = "done"]
          /\ tres' = [tres EXCEPT ![i] = "none"]
          /\ UNCHANGED <<sem, stats>>
       \/ /\ ~CapReached(max_products, stats.products_stored)
          /\ \/ \* extractor.extract or normalizer.normalize raises
                /\ CountError
                /\ tpc' = [tpc EXCEPT ![i] = "done"]
                /\ tres' = [tres EXCEPT ![i] = "error"]
                /\ UNCHANGED sem
             \/ /\ tpc' = [tpc EXCEPT ![i] = "infer"]
                /\ sem' = sem - 1
                /\ UNCHANGED <<tres, stats>>
    /\ UNCHANGED <<max_products, job_status, error_message, stats_json, ppc, exc,
                   products, crawl_note, jewels, notified>>
    /\ UNCHANGED notPipe

\* infer_attributes returns attributes, returns None or raises
TaskInfer(i) ==
    /\ ppc = "gather"
    /\ tpc[i] = "infer"
    /\ \/ /\ tpc' = [tpc EXCEPT ![i] = "dup"]
          /\ UNCHANGED <<tres, sem, stats>>
       \/ /\ Return(i, "none")
          /\ UNCHANGED stats
       \/ /\ Return(i, "error")
          /\ CountError
    /\ UNCHANGED <<max_products, job_status, error_message, stats_json, ppc, exc,
                   products, crawl_note, jewels, notified>>
    /\ UNCHANGED notPipe

\* store_jewel: the duplicate lookup
TaskDupCheck(i) ==
    /\ ppc = "gather"
    /\ tpc[i] = "dup"
    /\ \/ \* the lookup raises, outside store_jewel's try
          /\ Return(i, "error")
          /\ CountError
       \/ /\ _is_duplicate(jewels, products[i])
          /\ Return(i, "skip")
          /\ UNCHANGED stats
       \/ /\ ~_is_duplicate(jewels, products[i])
          /\ tpc' = [tpc EXCEPT ![i] = "write"]
          /\ UNCHANGED <<tres, sem, stats>>
    /\ UNCHANGED <<max_products, job_status, error_message, stats_json, ppc, exc,
                   products, crawl_note, jewels, notified>>
    /\ UNCHANGED notPipe

\* store_jewel: image download, insert, commit, refresh
TaskWrite(i) ==
    /\ ppc = "gather"
    /\ tpc[i] = "write"
    /\ \/ \* download or commit raises, or the commit hits the UNIQUE constraint:
          \* rollback, store_jewel returns None
          /\ Return(i, "failed")
          /\ UNCHANGED <<jewels, stats>>
       \/ \* as above and the rollback raises too: process_product's except
          /\ Return(i, "error")
          /\ CountError
          /\ UNCHANGED jewels
       \/ /\ ~UniqueViolation(jewels, products[i])
          /\ jewels' = jewels \cup {Row(products[i], "run")}
          /\ \/ /\ tpc' = [tpc EXCEPT ![i] = "count"]
                /\ UNCHANGED <<tres, sem>>
             \/ \* the refresh after the commit raises: the row stays
                Return(i, "failed")
          /\ UNCHANGED stats
    /\ UNCHANGED <<max_products, job_status, error_message, stats_json, ppc, exc,
                   products, crawl_note, notified>>
    /\ UNCHANGED notPipe

\* process_product after store_jewel returned a jewel
TaskCount(i) ==
    /\ ppc = "gather"
    /\ tpc[i] = "count"
    /\ stats' = [stats EXCEPT !.products_stored = @ + 1]
    /\ Return(i, "stored")
    /\ UNCHANGED <<max_products, job_status, error_message, stats_json, ppc, exc,
                   products, crawl_note, jewels, notified>>
    /\ UNCHANGED notPipe

\* A pipeline of another job, with its own session, commits a row for a URL
\* this run is about to write (an earlier insert is a row of the initial table).
OtherJobInsert(u) ==
    /\ ppc = "gather"
    /\ \E i \in DOMAIN tpc : tpc[i] = "write" /\ products[i] = u
    /\ ~UniqueViolation(jewels, u)
    /\ jewels' = jewels \cup {Row(u, "other")}
    /\ UNCHANGED <<max_products, job_status, error_message, stats_json, stats, ppc,
                   exc, products, crawl_note, tpc, tres, sem, notified>>
    /\ UNCHANGED notPipe

\* after gather: persist SUCCESS with the stats
PipeFinalize ==
    /\ ppc = "gather"
    /\ \A i \in DOMAIN tpc : tpc[i] = "done"
    /\ \/ /\ Raise("db")
          /\ UNCHANGED <<job_status, stats_json>>
       \/ /\ job_status' = SUCCESS
          /\ stats_json' = stats
          /\ ppc' = "notify"
          /\ UNCHANGED exc
    /\ UNCHANGED <<max_products, error_message, stats, products, crawl_note, tpc,
                   tres, sem, jewels, notified>>
    /\ UNCHANGED notPipe

\* the success notification
PipeNotify ==
    /\ ppc = "notify"
    /\ \E o \in NotifyOutcomes :
         /\ notified' = o
         /\ IF o = "raise" THEN Raise("notify")
                           ELSE ppc' = "done" /\ UNCHANGED exc
    /\ UNCHANGED <<max_products, job_status, error_message, stats_json, stats,
                   products, crawl_note, tpc, tres, sem, jewels>>
    /\ UNCHANGED notPipe

\* the except handler of run_scraping_pipeline
PipeHandler ==
    /\ ppc = "handler"
    /\ ppc' = "done"
    /\ \/ \* the select or the commit raises, or stats is not bound (NameError
          \* before the commit): caught by the inner except, nothing persisted
          /\ UNCHANGED <<job_status, error_message, stats_json, notified>>
       \/ /\ HandlerCanPersist(stats)
          /\ job_status' = FAILED
          /\ error_message' = exc
          /\ stats_json' = stats
          /\ \E o \in NotifyOutcomes : notified' = o
    /\ UNCHANGED <<max_products, stats, exc, products, crawl_note, tpc, tres, sem,
                   jewels>>
    /\ UNCHANGED notPipe

PipeSteps(most) ==
    \/ PipeStart
    \/ PipeCrawl(most)
    \/ \E i \in DOMAIN tpc : TaskEnter(i)
    \/ \E i \in DOMAIN tpc : TaskInfer(i)
    \/ \E i \in DOMAIN tpc : TaskDupCheck(i)
    \/ \E i \in DOMAIN tpc : TaskWrite(i)
    \/ \E i \in DOMAIN tpc : TaskCount(i)
    \/ \E u \in ProductUrls : OtherJobInsert(u)
    \/ PipeFinalize
    \/ PipeNotify
    \/ PipeHandler

PipeNext == PipeSteps(MaxProducts)

\* ---- a run on an empty table with one candidate more than the pipeline runs
\* above, under the positive caps that, with the permits of the semaphore,
\* let fewer tasks through than there are candidates
BitingCaps == {m \in 1..MaxCap : m + max_concurrent_products - 1 < MaxProducts + 1}

CapInit ==
    /\ max_products \in BitingCaps
    /\ job_status = QUEUED
    /\ error_message = "none"
    /\ stats_json = NoStats
    /\ stats = Unbound
    /\ ppc = "start"
    /\ exc = "none"
    /\ products = <<>>
    /\ crawl_note = "none"
    /\ tpc = <<>>
    /\ tres = <<>>
    /\ sem = max_concurrent_products
    /\ jewels = {}
    /\ notified = "none"
    /\ ClsIdle /\ CrawlIdle /\ SitemapIdle /\ CallIdle

CapNext == PipeSteps(MaxProducts + 1)

\* ------------------------------------------------- claims on the pipeline
RunRows == {r \in jewels : r.origin = "run"}
HasRow(u) == \E r \in jewels : r.source_url = u
NoSharedUrl(table) == \A r1, r2 \in table : r1.source_url = r2.source_url => r1 = r2

\* C1: with a positive cap M, the products_stored counter and the rows written
\* by store_jewel in the run never exceed M.
C1_StoredWithinCap ==
    (stats # Unbound /\ max_products > 0) =>
        /\ stats.products_stored <= max_products
        /\ Cardinality(RunRows) <= max_products

\* C4: a task whose store_jewel lookup finds a row for its source URL ends
\* with a skip (or with the lookup's own error), the table stays as it was,
\* and at no time do two rows of the table share a source URL.
C4_DuplicateSkipped ==
    [][ /\ \A i \in DOMAIN tpc :
             (tpc[i] = "dup" /\ tpc'[i] # "dup" /\ HasRow(products[i])) =>
                 (tres'[i] \in {"skip", "error"} /\ jewels' = jewels)
        /\ NoSharedUrl(jewels)
        /\ NoSharedUrl(jewels') ]_vars

\* one candidate skipped on a row of an earlier run, another one beaten to
\* its insert by a concurrent job
C4_Witness ==
    \E i, j \in DOMAIN tres :
        /\ tres[i] = "skip"
        /\ jewels \cap {r \in jewels : r.source_url = products[i]} = {Row(products[i], "prior")}
        /\ tres[j] = "failed"
        /\ Row(products[j], "other") \in jewels

C6_OnlyPipelineFailures ==
    /\ job_status = FAILED => error_message \in {"crawl", "db", "init"}
    /\ (ppc = "done" /\ exc = "none") => (job_status = SUCCESS /\ stats_json = stats)

\* a finished successful run with a failed fetch, failed candidates and a
\* failed notification
C6_Witness ==
    /\ ppc = "done"
    /\ job_status = SUCCESS
    /\ crawl_note = "fetch_failed"
    /\ notified = "not_sent"
    /\ stats_json.errors >= 2
    /\ \E i \in DOMAIN tres : tres[i] = "failed"

\* the crawl tasks that were abandoned on a failed fetch
AbandonedFetches == IF crawl_note = "fetch_failed" THEN 1 ELSE 0

\* C21: every fetch failure of the crawl pool is recorded in the run's error
\* counter: when the run is over, stats.errors is at least the number of
\* crawl tasks that were abandoned.
C21_FetchFailuresCounted ==
    (ppc = "done" /\ job_status = SUCCESS) => stats_json.errors >= AbandonedFetches

\* C22: when the storage write of a candidate fails (the download, the insert
\* or the commit raises), the error counter goes up by one for that candidate
\* and the other candidates' tasks are left as they are, to be processed.
C22_StorageFailureCounted ==
    [][ \A i \in DOMAIN tpc :
            (tpc[i] = "write" /\ tpc'[i] = "done" /\ tres'[i] \in {"failed", "error"}) =>
                /\ stats'.errors = stats.errors + 1
                /\ \A j \in DOMAIN tpc \ {i} : tpc'[j] = tpc[j] /\ tres'[j] = tres[j] ]_vars

\* C27: when run_scraping_pipeline raises anywhere inside its try block, also
\* before stats is initialised, the handler persists status failed with the
\* error message; a job whose pipeline has returned is never left queued or
\* running.
C27_FailurePersisted ==
    ppc = "done" =>
        /\ job_status \notin {QUEUED, RUNNING}
        /\ exc # "none" => (job_status = FAILED /\ error_message = exc)

\* the tasks past the cap check that have not returned
PastCheck == {i \in DOMAIN tpc : tpc[i] \in {"infer", "dup", "write", "count"}}

\* C26: with a positive cap M and the concurrency N of product processing,
\* the stored-product counter never exceeds M + N - 1 under any interleaving:
\* a task passes the cap check only while the counter is below M, and at most
\* N tasks are past the check at once.
C26_StoredWithinCapPlusPool ==
    (stats # Unbound /\ max_products > 0) =>
        /\ stats.products_stored <= max_products + max_concurrent_products - 1
        /\ Cardinality(PastCheck) <= max_concurrent_products
        /\ PastCheck # {} =>
              stats.products_stored + Cardinality(PastCheck)
                  <= max_products + max_concurrent_products - 1

\* cap 1, four candidates: three tasks passed the check together and each
\* stored its product, the fourth found the cap reached
C26_Witness ==
    /\ max_products = 1
    /\ Len(products) > max_products + max_concurrent_products - 1
    /\ stats # Unbound
    /\ stats.products_stored = max_products + max_concurrent_products - 1
    /\ \E i \in DOMAIN tpc : tpc[i] = "done" /\ tres[i] = "none"
    /\ \A i \in DOMAIN tpc : tpc[i] = "done"

\* ---------------------------------------------------------------- URLs
\* A URL is the sequence of its pieces: "/" and the words between. A keyword
\* of the code's lists is such a sequence too, and "kw in url" is the test
\* for a contiguous run whose last word may go on ('/ring' is in '/rings/x').
\* A path segment of a page's URL is one word, the file name of a sitemap is
\* several pieces, and the host is one no keyword occurs in.
Base == <<"https:", "/", "/", "gems.test">>
U(path) == Base \o path

\* the words of the model's URLs that go on after a keyword's last word
WordPrefixes ==
    {<<"products", "product">>, <<"rings", "ring">>, <<"jewelry", "jewel">>,
     <<"jewellery", "jewel">>, <<"necklaces", "necklace">>, <<"earrings", "earring">>,
     <<"bracelets", "bracelet">>, <<"pendants", "pendant">>, <<"new-arrivals", "new">>,
     <<"best-sellers", "best">>}

StartsWith(word, w) == word = w \/ <<word, w>> \in WordPrefixes

\* the keyword stands in the URL from piece i on
MatchAt(url, kw, i) ==
    /\ Len(kw) = 1 \/ url[i] = kw[1]
    /\ StartsWith(url[i + Len(kw) - 1], kw[Len(kw)])
    /\ \A j \in 2..(Len(kw) - 1) : url[i + j - 1] = kw[j]

Contains(url, kw) == \E i \in 1..(Len(url) - Len(kw) + 1) : MatchAt(url, kw, i)

ContainsAny(url, kws) == \E kw \in kws : Contains(url, kw)

\* str.count('/')
CountSlashes(url) == Cardinality({i \in 1..Len(url) : url[i] = "/"})

\* urlparse(url).path
PathOf(url) == SubSeq(url, Len(Base) + 1, Len(url))

\* [s for s in path.split('/') if s]
Segments(url) == SelectSeq(PathOf(url), LAMBDA t : t # "/")

\* '/word' and '/word/' and '.ext'
Kw(w) == <<"/", w>>
KwS(w) == <<"/", w, "/">>
Ext(e) == <<e>>

\* skip_patterns of _should_skip_url
skip_patterns ==
    {KwS("cdn-cgi"), KwS("api"), KwS("ajax"), KwS(".well-known")} \cup
    {Ext(".pdf"), Ext(".jpg"), Ext(".jpeg"), Ext(".png"), Ext(".gif"), Ext(".svg"),
     Ext(".css"), Ext(".js"), Ext(".ico")} \cup
    {Kw("cart"), Kw("checkout"), Kw("account"), Kw("login"), Kw("register"),
     Kw("password"), Kw("logout"), Kw("wishlist"), Kw("blog"), Kw("news")}

\* a skip test that lets every URL pass
_should_skip_url_never(url) == FALSE

_should_skip_url(url) == ContainsAny(url, skip_patterns)

\* a visited test that never finds the URL
AlreadyVisitedNever(url, visited) == FALSE

\* url in self.visited_urls
AlreadyVisited(url, visited) == url \in visited

\* a page budget that leaves one page too many
BudgetLeftPlusOne(visited, budget) == budget - Cardinality(visited) + 1

\* max_pages - len(self.visited_urls)
BudgetLeft(visited, budget) == budget - Cardinality(visited)

\* a pool that opens skip-listed URLs too
crawl_url_accepts_skipped(url, visited, budget) ==
    ~(AlreadyVisited(url, visited) \/ BudgetLeft(visited, budget) <= 0)

\* The check of crawl_url under the lock: the URL is claimed for a fetch
crawl_url_accepts(url, visited, budget) ==
    /\ ~(AlreadyVisited(url, visited) \/ BudgetLeft(visited, budget) <= 0)
    /\ ~_should_skip_url(url)

\* _learn_url_pattern: the list of learned URL patterns after a confirmed product
_learn_url_pattern(url, pats) ==
    IF Len(Segments(url)) >= 2
    THEN LET pattern == KwS(Segments(url)[1]) IN
         IF \E i \in 1..Len(pats) : pats[i] = pattern THEN pats
         ELSE Append(pats, pattern)
    ELSE pats

Range(f) == {f[i] : i \in DOMAIN f}

\* ------------------------------------------------------ the page classifier
PRODUCT == "product"
CATEGORY == "category"
LISTING == "listing"
HOME == "home"
OTHER_PAGE == "other"

product_url_keywords_static == {KwS("item"), KwS("p"), KwS("jewel"), <<"/", "jewelry-">>}
category_url_keywords ==
    {KwS("category"), KwS("collection"), Kw("products"), Kw("shop"), Kw("catalog")}

Max(a, b) == IF a >= b THEN a ELSE b

\* _count_product_cards_enhanced: the largest element count over the learned
\* selectors and the standard card selectors
RECURSIVE MaxOver(_, _)
MaxOver(counts, sels) ==
    IF sels = <<>> THEN 0
    ELSE Max(counts[Head(sels)], MaxOver(counts, Tail(sels)))

_count_product_cards_enhanced(sig, link_selectors) ==
    Max(MaxOver(sig.sel_cards, link_selectors), sig.std_cards)

\* a URL signal that any learned pattern sets off, in the URL or not
UrlProductBonusAnyLearned(url, pats) ==
    IF ContainsAny(url, product_url_keywords_static) \/ pats # <<>> THEN 20 ELSE 0

\* Signal 1 of _enhanced_classify_page, product side
UrlProductBonus(url, pats) ==
    IF ContainsAny(url, product_url_keywords_static \cup Range(pats)) THEN 20 ELSE 0

\* product_score of _enhanced_classify_page
ProductScore(url, sig, pats, cards) ==
    UrlProductBonus(url, pats)
    + 30 * sig.schema_product
    + (IF sig.price_class THEN 10 ELSE 0)
    + (IF sig.itemprop_price THEN 15 ELSE 0)
    + (IF sig.cart_text THEN 15 ELSE 0)
    + (IF sig.cart_class THEN 15 ELSE 0)
    + (IF sig.h1 = 1 THEN 10 ELSE 0)
    + (IF cards >= 6 THEN -20 ELSE IF cards >= 3 THEN -10 ELSE IF cards <= 1 THEN 5 ELSE 0)
    + (IF 3 <= sig.imgs /\ sig.imgs <= 15 THEN 5 ELSE 0)
    + (IF sig.crumbs >= 3 THEN 10 ELSE 0)

\* category_score of _enhanced_classify_page
CategoryScore(url, sig, cards) ==
    (IF ContainsAny(url, category_url_keywords) /\ CountSlashes(url) <= 4 THEN 20 ELSE 0)
    + 20 * sig.schema_list
    + (IF cards >= 6 THEN 30 ELSE IF cards >= 3 THEN 20 ELSE 0)
    + (IF sig.filter_text THEN 15 ELSE 0)
    + (IF sig.filter_class THEN 15 ELSE 0)
    + (IF sig.imgs > 15 THEN 5 ELSE 0)

\* a decision with the category threshold on the card count at 6
DecisionCards6(has_product, product_score, category_score, product_cards) ==
    IF has_product THEN PRODUCT
    ELSE IF product_score >= 40 THEN PRODUCT
    ELSE IF category_score >= 30
         THEN (IF product_cards >= 6 THEN CATEGORY ELSE LISTING)
    ELSE IF product_cards >= 3 THEN LISTING
    ELSE OTHER_PAGE

\* The decision of _enhanced_classify_page
Decision(has_product, product_score, category_score, product_cards) ==
    IF has_product THEN PRODUCT
    ELSE IF product_score >= 40 THEN PRODUCT
    ELSE IF category_score >= 30
         THEN (IF product_cards >= 10 THEN CATEGORY ELSE LISTING)
    ELSE IF product_cards >= 3 THEN LISTING
    ELSE OTHER_PAGE

_enhanced_classify_page(url, sig, pats, link_selectors) ==
    IF _should_skip_url(url) THEN OTHER_PAGE
    ELSE LET cards == _count_product_cards_enhanced(sig, link_selectors) IN
         Decision(Contains(url, Kw("product")),
                  ProductScore(url, sig, pats, cards),
                  CategoryScore(url, sig, cards),
                  cards)

\* -------------------------------------------- the classifier's input space
\* Largest number of schema.org elements of one kind on a page
MaxSchema == 1

u_product == U(<<"/", "product", "/", "x">>)
u_rings_x == U(<<"/", "rings", "/", "x">>)
u_rings_y == U(<<"/", "rings", "/", "y">>)
u_item == U(<<"/", "item", "/", "x">>)
u_shop == U(<<"/", "shop">>)
u_cart == U(<<"/", "cart">>)
u_product_cart == U(<<"/", "product", "/", "cart">>)
u_plain == U(<<"/", "x">>)

ClsUrls == {u_product, u_rings_x, u_item, u_shop, u_cart, u_product_cart, u_plain}
ClsPatterns == {<<>>, <<KwS("rings")>>, <<KwS("rings"), KwS("item")>>}
Selectors == {"s1"}
CardCounts == {0, 1, 2, 3, 8, 10}

\* a page without signals; the learned selector "s1" finds 10 elements on it
BareSig ==
    [schema_product |-> 0, schema_list |-> 0, price_class |-> FALSE,
     itemprop_price |-> FALSE, cart_text |-> FALSE, cart_class |-> FALSE,
     h1 |-> 2, std_cards |-> 0, sel_cards |-> [s \in Selectors |-> 10],
     filter_text |-> FALSE, filter_class |-> FALSE, imgs |-> 0, crumbs |-> 0]

\* "[itemtype*='Product']" is one of the standard card selectors
Consistent(sig) == sig.std_cards >= sig.schema_product

\* pages that vary the main signals
SigsMain ==
    {sig \in
        {[BareSig EXCEPT !.schema_product = sp, !.schema_list = sl, !.price_class = pc,
                         !.cart_text = ct, !.h1 = h, !.std_cards = c, !.imgs = im,
                         !.filter_text = ft] :
            sp \in 0..MaxSchema, sl \in 0..MaxSchema, pc \in BOOLEAN, ct \in BOOLEAN,
            h \in {1, 2}, c \in CardCounts, im \in {0, 3, 16}, ft \in BOOLEAN} :
        Consistent(sig)}

\* pages that vary the remaining signals
SigsRest ==
    {[BareSig EXCEPT !.itemprop_price = ip, !.cart_class = cc, !.filter_class = fc,
                     !.crumbs = cr, !.std_cards = c, !.h1 = 1, !.price_class = TRUE] :
        ip \in BOOLEAN, cc \in BOOLEAN, fc \in BOOLEAN, cr \in {0, 3}, c \in CardCounts}

ClsInput(kind, url, sig, pats, sels, has, ps, cs, cards) ==
    [kind |-> kind, url |-> url, sig |-> sig, pats |-> pats, sels |-> sels,
     has |-> has, ps |-> ps, cs |-> cs, cards |-> cards]

\* the pages handed to the classifier: each URL with the signals of main under
\* every pattern store, and with the signals of rest
PageInputs(main, rest) ==
    {ClsInput("page", url, sig, pats, sels, FALSE, 0, 0, 0) :
        url \in ClsUrls, sig \in main, pats \in ClsPatterns, sels \in {<<>>, <<"s1">>}}
    \cup
    {ClsInput("page", url, sig, <<>>, <<>>, FALSE, 0, 0, 0) :
        url \in ClsUrls, sig \in rest}

\* bare scores handed to the decision
ScoreInputs ==
    {ClsInput("scores", <<>>, BareSig, <<>>, <<>>, has, ps, cs, cards) :
        has \in BOOLEAN, ps \in {35, 39, 40, 45}, cs \in {10, 29, 30, 35},
        cards \in {1, 2, 3, 8, 9, 10}}

NoVerdict == [done |-> FALSE, verdict |-> "none", has |-> FALSE, ps |-> 0, cs |-> 0, cards |-> 0]

ClsInit ==
    /\ cls_in \in PageInputs(SigsMain, SigsRest) \cup ScoreInputs
    /\ cls_out = NoVerdict
    /\ PipeIdle /\ CrawlIdle /\ SitemapIdle /\ CallIdle

\* crawl_url takes the page and classifies it
ClassifyPage ==
    /\ cls_in.kind = "page"
    /\ ~cls_out.done
    /\ crawl_url_accepts(cls_in.url, {}, 1)
    /\ LET cards == _count_product_cards_enhanced(cls_in.sig, cls_in.sels) IN
       cls_out' = [done |-> TRUE,
                   verdict |-> _enhanced_classify_page(cls_in.url, cls_in.sig,
                                                       cls_in.pats, cls_in.sels),
                   has |-> Contains(cls_in.url, Kw("product")),
                   ps |-> ProductScore(cls_in.url, cls_in.sig, cls_in.pats, cards),
                   cs |-> CategoryScore(cls_in.url, cls_in.sig, cards),
                   cards |-> cards]
    /\ UNCHANGED <<cls_in, notCls>>

\* the decision of _enhanced_classify_page on given scores
DecideScores ==
    /\ cls_in.kind = "scores"
    /\ ~cls_out.done
    /\ cls_out' = [done |-> TRUE,
                   verdict |-> Decision(cls_in.has, cls_in.ps, cls_in.cs, cls_in.cards),
                   has |-> cls_in.has, ps |-> cls_in.ps, cs |-> cls_in.cs,
                   cards |-> cls_in.cards]
    /\ UNCHANGED <<cls_in, notCls>>

ClsNext ==
    \/ ClassifyPage
    \/ DecideScores

\* ----------------------------------------------- claims on the classifier
\* the rule as the claim states it
C7_Rule(has, ps, cs, cards) ==
    CASE has -> PRODUCT
      [] ~has /\ ps >= 40 -> PRODUCT
      [] ~has /\ ps < 40 /\ cs >= 30 /\ cards >= 10 -> CATEGORY
      [] ~has /\ ps < 40 /\ cs >= 30 /\ cards < 10 -> LISTING
      [] ~has /\ ps < 40 /\ cs < 30 /\ cards >= 3 -> LISTING
      [] ~has /\ ps < 40 /\ cs < 30 /\ cards < 3 -> OTHER_PAGE

\* C7: every verdict the pool's classifier gives is the one of the ordered
\* rule ('/product' in the URL, product score >= 40, category score >= 30 with
\* the card count deciding category or listing, card count >= 3, other), and
\* scores (45, 10, 1) give PRODUCT.
C7_DecisionRule ==
    cls_out.done =>
        /\ cls_out.verdict = C7_Rule(cls_out.has, cls_out.ps, cls_out.cs, cls_out.cards)
        /\ (~cls_out.has /\ cls_out.ps = 45 /\ cls_out.cs = 10 /\ cls_out.cards = 1)
               => cls_out.verdict = PRODUCT

\* a fetched page without '/product' in its URL, product score 45 and one
\* card, classified PRODUCT
C7_Witness ==
    /\ cls_out.done /\ cls_in.kind = "page"
    /\ ~cls_out.has /\ cls_out.ps = 45 /\ cls_out.cards = 1
    /\ cls_out.verdict = PRODUCT

C8_Case ==
    /\ cls_out.done
    /\ ~cls_out.has /\ cls_out.ps < 40 /\ cls_out.cs = 35 /\ cls_out.cards = 8

\* C8 as stated: card count 8 and category score 35 give CATEGORY.
C8_CategoryAt8 == C8_Case => cls_out.verdict = CATEGORY

\* C8 as amended: card count 8 and category score 35 (product score below
\* 40, no '/product' in the URL) give LISTING; CATEGORY needs 10 cards.
C8_ListingAt8 == C8_Case => cls_out.verdict = LISTING

\* a fetched page with 8 cards and category score 35
C8_Witness == C8_Case /\ cls_in.kind = "page" /\ cls_out.verdict = LISTING

\* ------------------------------------------------------------ the site
\* The crawled site: what a fetch of each URL gives. '/rings/x' is a page with
\* strong product signals, '/rings/y' one with weak ones, '/products' a grid
\* of 8 cards, '/shop' a grid whose cards link to '/product/a' and to
\* '/product/cart', '/product/a' a product page, the homepage a plain page;
\* every other URL answers 404.
u_home == Base
u_product_a == U(<<"/", "product", "/", "a">>)
u_products == U(<<"/", "products">>)
u_rings_x_raw == U(<<"/", "rings", "/", "x", "/">>)
u_product_a_raw == U(<<"/", "product", "/", "a", "/">>)

StrongSig ==
    [BareSig EXCEPT !.schema_product = 1, !.std_cards = 1, !.price_class = TRUE,
                    !.cart_text = TRUE, !.h1 = 1]
WeakSig == [BareSig EXCEPT !.price_class = TRUE, !.cart_text = TRUE]
GridSig == [BareSig EXCEPT !.std_cards = 8, !.filter_text = TRUE, !.imgs = 16]

NoPage == [found |-> FALSE]
\* learned_links: the anchors the learned link selectors match; card_links:
\* those the standard card selectors match; context_links: the anchors with a
\* product, item or card class up to three parents up; img_links: the anchors
\* around an image
SitePage(sig, anchors, cards, imgs, pagination) ==
    [found |-> TRUE, sig |-> sig, anchors |-> anchors, learned_links |-> {},
     card_links |-> cards, context_links |-> {}, img_links |-> imgs,
     pagination |-> pagination]

Site(url) ==
    CASE url = u_home ->
            SitePage(BareSig, <<u_rings_x_raw, u_product_a, u_cart, u_rings_x>>, {}, {}, {})
      [] url = u_products ->
            SitePage(GridSig, <<u_product_a, u_rings_y>>, {u_product_a, u_rings_y},
                     {u_cart}, {})
      [] url = u_shop ->
            SitePage(GridSig, <<u_product_a>>, {u_product_a, u_product_cart}, {}, {})
      [] url \in {u_product_a, u_product_a_raw} ->
            SitePage(StrongSig, <<u_products>>, {}, {}, {})
      [] url = u_rings_x -> SitePage(StrongSig, <<u_rings_y>>, {}, {}, {})
      [] url = u_rings_y -> SitePage(WeakSig, <<u_rings_x>>, {}, {}, {})
      [] OTHER -> NoPage

\* ------------------------------------------------------ link extraction
Min(a, b) == IF a <= b THEN a ELSE b

\* _clean_url: the fragment and the path's trailing slashes go
RECURSIVE StripSlashes(_)
StripSlashes(url) ==
    IF Len(url) > Len(Base) /\ url[Len(url)] = "/"
    THEN StripSlashes(SubSeq(url, 1, Len(url) - 1))
    ELSE url

_clean_url(url) ==
    LET cut == {i \in 1..Len(url) : url[i] = "#"} IN
    StripSlashes(IF cut = {} THEN url
                 ELSE SubSeq(url, 1, (CHOOSE i \in cut : \A j \in cut : i <= j) - 1))

\* _looks_like_product_url: a learned pattern or a product indicator
product_indicators ==
    {Kw("product"), Kw("item"), KwS("p"), Kw("jewel"), Kw("jewelry-"), Kw("jewellery"),
     Kw("ring"), Kw("necklace"), Kw("earring"), Kw("bracelet"), Kw("pendant"),
     Kw("chain"), Kw("charm"), Kw("bangle"), Kw("anklet")}

_looks_like_product_url(url, pats) ==
    ContainsAny(url, Range(pats)) \/ ContainsAny(url, product_indicators)

\* len(urlparse(url).path.split('/')) - 1
Depth(url) == CountSlashes(PathOf(url))

avoid ==
    {Kw("blog"), Kw("about"), Kw("contact"), Kw("cart"), Kw("checkout"), Kw("account"),
     Kw("login"), Kw("register"), Kw("search"), Kw("help"), Kw("faq"), Kw("privacy"),
     Kw("terms"), Kw("shipping"), Kw("returns"), Kw("reviews"), Kw("warranty"),
     Ext(".pdf"), Ext(".jpg"), Ext(".png"), Ext(".gif"), Ext(".css"), Ext(".js"),
     KwS("cdn-cgi")}

_calculate_enhanced_link_priority(url, pats) ==
    LET very_high == {KwS("product"), KwS("item"), KwS("p"), KwS("shop"), KwS("buy")}
                         \cup Range(pats)
        high == {KwS("collection"), KwS("category"), KwS("catalog"), Kw("jewelry"),
                 Kw("jewellery")}
        medium == {Kw("ring"), Kw("necklace"), Kw("earring"), Kw("bracelet"),
                   Kw("pendant"), Kw("chain")}
        low == {Kw("new"), Kw("best"), Kw("featured"), Kw("sale"), Kw("trending")}
        scored == 10 + (IF ContainsAny(url, very_high) THEN 60 ELSE 0)
                     + (IF ContainsAny(url, high) THEN 40 ELSE 0)
                     + (IF ContainsAny(url, medium) THEN 30 ELSE 0)
                     + (IF ContainsAny(url, low) THEN 20 ELSE 0)
        priority == IF ContainsAny(url, avoid) THEN 0 ELSE scored
        depth == Depth(url)
    IN  IF 2 <= depth /\ depth <= 4 THEN priority + 5 * depth
        ELSE IF depth > 4 THEN priority - 5
        ELSE priority

\* the orders list(a_set) can give
Perms(S) == {q \in [1..Cardinality(S) -> S] : \A i, j \in DOMAIN q : q[i] = q[j] => i = j}

\* urlparse(url).netloc == domain
_is_same_domain(url) == Len(url) >= Len(Base) /\ SubSeq(url, 1, Len(Base)) = Base

\* what strategies 1 and 2 add for the anchors a selector matches
SelectorLinks(links, pats) ==
    {_clean_url(l) : l \in {c \in links : _is_same_domain(c)
                                           /\ _looks_like_product_url(c, pats)}}

\* a contextual scan that is never left out
RunsContextScanAlways(product_links) == TRUE

\* line 681: strategy 3 runs if fewer than 5 links are there
RunsContextScan(product_links) == Cardinality(product_links) < 5

\* line 720: strategy 4 runs if fewer than 3 links are there
RunsImageFallback(product_links) == Cardinality(product_links) < 3

\* _extract_product_links_multi_strategy: the links the four strategies leave
\* and the strategies that ran, in their order; selectors is the learned
\* product_link_selectors
_extract_product_links_multi_strategy(page, pats, selectors) ==
    LET learned == IF selectors = <<>> THEN {} ELSE SelectorLinks(page.learned_links, pats)
        cards == learned \cup SelectorLinks(page.card_links, pats)
        scan == RunsContextScan(cards)
        context == IF scan
                   THEN cards \cup {c \in {_clean_url(l) : l \in {a \in page.context_links :
                                                                      _is_same_domain(a)}} :
                                       _looks_like_product_url(c, pats)}
                   ELSE cards
        fallback == RunsImageFallback(context)
        images == IF fallback
                  THEN context \cup {c \in {_clean_url(l) : l \in {a \in page.img_links :
                                                                      _is_same_domain(a)}} :
                                        PathOf(c) # <<>>}
                  ELSE context
    IN  [links |-> images,
         ran |-> <<1, 2>> \o (IF scan THEN <<3>> ELSE <<>>)
                         \o (IF fallback THEN <<4>> ELSE <<>>)]

\* the product links of a page of the crawled site, where no selector was learned
ProductLinkSet(page, pats) == _extract_product_links_multi_strategy(page, pats, <<>>).links

\* a sort that leaves the list as it was
SortDescNot(s, k) == s

\* list.sort(key=lambda x: -x[k]): stable, highest first
RECURSIVE SortDesc(_, _)
SortDesc(s, k) ==
    IF s = <<>> THEN <<>>
    ELSE LET init == SortDesc(SubSeq(s, 1, Len(s) - 1), k)
             x == s[Len(s)]
             n == Cardinality({i \in 1..Len(init) : init[i][k] >= x[k]})
         IN  SubSeq(init, 1, n) \o <<x>> \o SubSeq(init, n + 1, Len(init))

\* _extract_promising_links: the first 100 anchors with a priority above 0
RECURSIVE PrioritizedLinks(_, _)
PrioritizedLinks(anchors, pats) ==
    IF anchors = <<>> THEN <<>>
    ELSE LET clean_url == _clean_url(Head(anchors))
             priority == _calculate_enhanced_link_priority(clean_url, pats)
             rest == PrioritizedLinks(Tail(anchors), pats)
         IN  IF priority > 0 THEN <<<<clean_url, priority>>>> \o rest ELSE rest

_extract_promising_links(page, pats) ==
    SortDesc(PrioritizedLinks(SubSeq(page.anchors, 1, Min(100, Len(page.anchors))), pats), 2)

\* ------------------------------------------------- product validation
\* The HTML of a page: its length in characters and which of the phrases
\* the validation looks for stand in its lower-cased text
PriceMarkers == {"price", "$", "EUR-sign", "INR-sign", "rs"}
PurchasePhrases == {"add to cart", "add to bag", "buy now"}
HtmlPhrases == PriceMarkers \cup PurchasePhrases \cup {"product"}

\* len(product_data.get('html', '')) < 500 fails the validation
MinHtml == 500

Html(len, phrases) == [len |-> len, phrases |-> phrases]

\* Largest number of images the extraction finds on a page
MaxImages == 1

\* _extract_product_data: the URL, the page's content and its images
ProductData(url, html, images) == [url |-> url, html |-> html, images |-> images]

\* the number of indicators the HTML and the images show
indicators_found(product_data) ==
    (IF product_data.html.phrases \cap PriceMarkers # {} THEN 1 ELSE 0)
    + (IF product_data.html.phrases \cap PurchasePhrases # {} THEN 1 ELSE 0)
    + (IF "product" \in product_data.html.phrases THEN 1 ELSE 0)
    + (IF product_data.images > 0 THEN 1 ELSE 0)

\* a validation that takes a page of any length
_validate_product_data_any_length(product_data) ==
    /\ product_data.url # <<>>
    /\ indicators_found(product_data) >= 1

_validate_product_data(product_data) ==
    /\ product_data.url # <<>>
    /\ ~(product_data.html.len = 0 \/ product_data.html.len < MinHtml)
    /\ indicators_found(product_data) >= 1

\* what the extraction gives on a page of the site with these signals: the
\* phrases the signals stand for, in a document of the given length
PageData(url, sig, len) ==
    ProductData(url,
                Html(len, (IF sig.price_class \/ sig.itemprop_price THEN {"price"} ELSE {})
                          \cup (IF sig.cart_text THEN {"add to cart"} ELSE {})
                          \cup (IF sig.schema_product > 0 THEN {"product"} ELSE {})),
                Min(sig.imgs, MaxImages))

\* the lengths of the site's documents
HtmlLengths == {MinHtml - 1, MinHtml}

\* ------------------------------------------------------- the crawl pool
\* getattr(settings, 'crawler_concurrent_pages', 5): Settings has no such field
max_concurrent_pages == 5

\* Largest page budget of a crawl
MaxPages == 2

\* what the sitemap and the homepage's navigation can have given
SitemapProducts == {u_product_a, u_products}
NavCategories == {u_rings_x, u_rings_y, u_products}
\* the menus of the homepage: any of the three links above, or a menu with
\* "Shop" and "Shopping cart"
NavMenus == SUBSET NavCategories \cup {{u_shop, u_cart}}
\* what the sitemap phase can have left: any of the two product URLs above,
\* or the <loc> of a sitemap that writes its URLs with a trailing slash
SitemapLists == SUBSET SitemapProducts \cup {{u_product_a_raw}}
LlmPatterns == {<<>>}

None == [is_none |-> TRUE]

QueueUrls(queue) == {queue[i][2] : i \in DOMAIN queue}

common_paths ==
    <<"shop", "products", "jewelry", "jewellery", "collection", "collections",
      "rings", "necklaces", "earrings", "bracelets", "pendants", "categories",
      "catalog", "store", "new-arrivals", "new", "best-sellers", "featured">>

RECURSIVE AddCommonPaths(_, _)
AddCommonPaths(queue, paths) ==
    IF paths = <<>> THEN queue
    ELSE LET url == U(Kw(Head(paths))) IN
         AddCommonPaths(IF url \in QueueUrls(queue) THEN queue
                        ELSE Append(queue, <<70, url, CATEGORY>>),
                        Tail(paths))

\* cats: self.category_urls in the order the loop meets them
_initialize_enhanced_priority_queue(cats) ==
    LET queue == [i \in 1..Len(cats) |-> <<90, cats[i], CATEGORY>>] IN
    AddCommonPaths(IF queue = <<>> THEN <<<<85, u_home, HOME>>>> ELSE queue, common_paths)

\* the sitemap's product URLs go to the front, one after the other
RECURSIVE AddSitemapProducts(_, _, _)
AddSitemapProducts(queue, urls, visited) ==
    IF urls = <<>> THEN queue
    ELSE AddSitemapProducts(IF AlreadyVisited(Head(urls), visited) THEN queue
                            ELSE <<<<100, Head(urls), PRODUCT>>>> \o queue,
                            Tail(urls), visited)

\* list.insert(i, x)
InsertAt(s, i, x) ==
    LET k == Min(i, Len(s)) IN SubSeq(s, 1, k) \o <<x>> \o SubSeq(s, k + 1, Len(s))

\* link not in self.visited_urls and link not in [item[1] for item in priority_queue]
IsNew(link, visited, queue) == ~AlreadyVisited(link, visited) /\ link \notin QueueUrls(queue)

RECURSIVE AddProductLinks(_, _, _)
AddProductLinks(queue, links, visited) ==
    IF links = <<>> THEN queue
    ELSE AddProductLinks(IF IsNew(Head(links), visited, queue)
                         THEN <<<<95, Head(links), PRODUCT>>>> \o queue ELSE queue,
                         Tail(links), visited)

RECURSIVE AddNextPages(_, _, _, _, _)
AddNextPages(queue, next_pages, visited, at, page_type) ==
    IF next_pages = <<>> THEN queue
    ELSE AddNextPages(IF IsNew(Head(next_pages), visited, queue)
                      THEN InsertAt(queue, at, <<85, Head(next_pages), page_type>>)
                      ELSE queue,
                      Tail(next_pages), visited, at, page_type)

RECURSIVE AddOtherLinks(_, _, _)
AddOtherLinks(queue, other_links, visited) ==
    IF other_links = <<>> THEN queue
    ELSE AddOtherLinks(IF IsNew(Head(other_links)[1], visited, queue)
                       THEN Append(queue, <<Head(other_links)[2], Head(other_links)[1],
                                            OTHER_PAGE>>)
                       ELSE queue,
                       Tail(other_links), visited)

\* lines 466-483 for one result
MergeResult(queue, result, visited) ==
    SortDesc(AddOtherLinks(
                 AddNextPages(AddProductLinks(queue, result.product_links, visited),
                              result.next_pages, visited, Len(result.product_links),
                              result.page_type),
                 result.other_links, visited), 1)

\* the loop over the results of a batch: the queue it leaves
RECURSIVE MergeResults(_, _, _)
MergeResults(queue, results, visited) ==
    IF results = <<>> THEN queue
    ELSE MergeResults(IF Head(results) = None THEN queue
                      ELSE MergeResult(queue, Head(results), visited),
                      Tail(results), visited)

\* the product data of the results, in the batch's order
RECURSIVE FoundProducts(_)
FoundProducts(results) ==
    IF results = <<>> THEN <<>>
    ELSE (IF Head(results) # None /\ Head(results).product_data
          THEN <<Head(results).url>> ELSE <<>>) \o FoundProducts(Tail(results))

Worker(entry) == [pc |-> "wait", entry |-> entry, page_type |-> "none", result |-> None]

\* ---- the order in which tasks enter the frontier and the batch each leaves in
Reverse(s) == [i \in 1..Len(s) |-> s[Len(s) + 1 - i]]

\* the seeding's tasks in the order they were put in: the appended ones in the
\* queue's order, then the sitemap's products, each put in front of the last
SeedOrder(seeded, queue) ==
    seeded \o Reverse(SubSeq(queue, 1, Len(queue) - Len(seeded)))

\* the links of one result that pass the test of lines 469, 474 and 479, in
\* the order of the three loops
RECURSIVE NewLinks(_, _, _)
NewLinks(links, visited, known) ==
    IF links = <<>> THEN <<>>
    ELSE IF AlreadyVisited(Head(links), visited) \/ Head(links) \in known
         THEN NewLinks(Tail(links), visited, known)
         ELSE <<Head(links)>> \o NewLinks(Tail(links), visited, known \cup {Head(links)})

\* the tasks one result adds to the queue, in the order they were put in
MergeOrder(queue, result, visited) ==
    LET merged == MergeResult(queue, result, visited)
        links == NewLinks(result.product_links \o result.next_pages
                              \o [i \in DOMAIN result.other_links |->
                                     result.other_links[i][1]],
                          visited, QueueUrls(queue))
    IN  [i \in DOMAIN links |->
            merged[CHOOSE k \in DOMAIN merged : merged[k][2] = links[i]]]

RECURSIVE MergesOrder(_, _, _)
MergesOrder(queue, results, visited) ==
    IF results = <<>> THEN <<>>
    ELSE IF Head(results) = None THEN MergesOrder(queue, Tail(results), visited)
    ELSE MergeOrder(queue, Head(results), visited)
             \o MergesOrder(MergeResult(queue, Head(results), visited),
                            Tail(results), visited)

\* the batches taken so far
Batches(log) == Cardinality({log[i].batch : i \in DOMAIN log} \ {0})

\* the log after tasks entered the frontier and a batch left it
Logged(log, tasks, batch) ==
    LET all == log \o [i \in DOMAIN tasks |-> [entry |-> tasks[i], batch |-> 0]]
        n == Batches(log) + 1
    IN  [i \in DOMAIN all |->
            IF all[i].batch = 0 /\ \E j \in DOMAIN batch : batch[j] = all[i].entry
            THEN [all[i] EXCEPT !.batch = n] ELSE all[i]]

\* the batch the loop's head has just taken
Taken == [i \in DOMAIN workers' |-> workers'[i].entry]

CrawlInit ==
    /\ max_pages \in 0..MaxPages
    /\ product_urls \in SitemapLists
    /\ category_urls \in NavMenus
    /\ llm_patterns \in LlmPatterns
    /\ product_url_patterns = llm_patterns
    /\ visited_urls = {}
    /\ priority_queue = <<>>
    /\ workers = <<>>
    /\ semaphore = max_concurrent_pages
    /\ crawl_products = <<>>
    /\ cpc = "start"
    /\ fetched = {} /\ refetched = {} /\ readded = {}
    /\ verdicts = {}
    /\ dispatch_log = <<>> /\ unlocked = {}
    /\ PipeIdle /\ ClsIdle /\ SitemapIdle /\ CallIdle

\* a loop that returns after its first batch
LoopHeadOnce(queue) ==
    LET batch_size == Min(Min(max_concurrent_pages * 2, Len(queue)),
                          BudgetLeft(visited_urls, max_pages)) IN
    IF cpc = "start" /\ queue # <<>> /\ batch_size > 0
    THEN /\ workers' = [i \in 1..batch_size |-> Worker(queue[i])]
         /\ priority_queue' = SubSeq(queue, batch_size + 1, Len(queue))
         /\ cpc' = "gather"
    ELSE /\ workers' = <<>>
         /\ priority_queue' = queue
         /\ cpc' = "done"

\* the head of the batch loop, lines 436-450: the next batch starts or the
\* crawl returns
LoopHead(queue) ==
    LET batch_size == Min(Min(max_concurrent_pages * 2, Len(queue)),
                          BudgetLeft(visited_urls, max_pages)) IN
    IF queue # <<>> /\ BudgetLeft(visited_urls, max_pages) > 0 /\ batch_size > 0
    THEN /\ workers' = [i \in 1..batch_size |-> Worker(queue[i])]
         /\ priority_queue' = SubSeq(queue, batch_size + 1, Len(queue))
         /\ cpc' = "gather"
    ELSE /\ workers' = <<>>
         /\ priority_queue' = queue
         /\ cpc' = "done"

\* _intelligent_crawl up to the first gather
CrawlStart ==
    /\ cpc = "start"
    /\ \E cats \in Perms(category_urls), prods \in Perms(product_urls) :
          LET seeded == _initialize_enhanced_priority_queue(cats)
              queue == AddSitemapProducts(seeded,
                                          SubSeq(prods, 1, Min(max_pages, Len(prods))),
                                          visited_urls)
          IN  /\ LoopHead(queue)
              /\ dispatch_log' = Logged(dispatch_log, SeedOrder(seeded, queue), Taken)
    /\ unlocked' = unlocked \cup {<<"loop", "priority_queue">>}
    /\ UNCHANGED <<max_pages, product_urls, category_urls, llm_patterns,
                   product_url_patterns, visited_urls, semaphore, crawl_products,
                   fetched, refetched, readded, verdicts, notCrawl>>

WorkerReturn(i, result) ==
    /\ workers' = [workers EXCEPT ![i].pc = "done", ![i].result = result]
    /\ semaphore' = semaphore + 1

\* crawl_url, lines 356-364: the semaphore and the check-and-set under the lock
WorkerEnter(i) ==
    /\ cpc = "gather" /\ workers[i].pc = "wait"
    /\ semaphore > 0
    /\ LET url == workers[i].entry[2] IN
       IF crawl_url_accepts(url, visited_urls, max_pages)
       THEN /\ visited_urls' = visited_urls \cup {url}
            /\ readded' = IF url \in visited_urls THEN readded \cup {url} ELSE readded
            /\ workers' = [workers EXCEPT ![i].pc = "fetch"]
            /\ semaphore' = semaphore - 1
       ELSE /\ workers' = [workers EXCEPT ![i].pc = "done"]
            /\ UNCHANGED <<visited_urls, readded, semaphore>>
    /\ UNCHANGED <<max_pages, product_urls, category_urls, llm_patterns,
                   product_url_patterns, priority_queue, crawl_products, cpc,
                   fetched, refetched, verdicts, dispatch_log, unlocked, notCrawl>>

\* the verdict on a URL under the pattern store the pool started with
VerdictAtStart(url) == _enhanced_classify_page(url, Site(url).sig, llm_patterns, <<>>)

\* crawl_url, lines 366-396: the page is opened and classified
WorkerFetch(i) ==
    /\ cpc = "gather" /\ workers[i].pc = "fetch"
    /\ LET url == workers[i].entry[2]
           page == Site(url)
       IN  /\ fetched' = fetched \cup {url}
           /\ refetched' = IF url \in fetched THEN refetched \cup {url} ELSE refetched
           /\ \/ /\ WorkerReturn(i, None)
                 /\ UNCHANGED verdicts
              \/ /\ page.found
                 /\ LET page_type == _enhanced_classify_page(url, page.sig,
                                                             product_url_patterns, <<>>)
                    IN  /\ workers' = [workers EXCEPT
                                          ![i].pc = IF page_type = PRODUCT THEN "extract"
                                                    ELSE "links",
                                          ![i].page_type = page_type]
                        /\ verdicts' = verdicts \cup {<<url, page_type, VerdictAtStart(url)>>}
                 /\ UNCHANGED semaphore
    /\ UNCHANGED <<max_pages, product_urls, category_urls, llm_patterns,
                   product_url_patterns, visited_urls, priority_queue, crawl_products,
                   cpc, readded, dispatch_log, unlocked, notCrawl>>

\* crawl_url, lines 398-408: the product data is extracted and validated, and
\* a valid product's URL pattern is learned
WorkerExtract(i) ==
    /\ cpc = "gather" /\ workers[i].pc = "extract"
    /\ \/ /\ WorkerReturn(i, None)
          /\ UNCHANGED <<product_url_patterns, unlocked>>
       \/ /\ \E len \in HtmlLengths :
               LET url == workers[i].entry[2]
                   valid == _validate_product_data(PageData(url, Site(url).sig, len))
               IN
               /\ workers' = [workers EXCEPT ![i].pc = "links",
                                             ![i].result = [is_none |-> FALSE,
                                                            valid |-> valid]]
               /\ product_url_patterns' =
                      IF valid THEN _learn_url_pattern(workers[i].entry[2],
                                                       product_url_patterns)
                      ELSE product_url_patterns
          /\ unlocked' = IF product_url_patterns' # product_url_patterns
                         THEN unlocked \cup {<<"worker", "product_url_patterns">>}
                         ELSE unlocked
          /\ UNCHANGED semaphore
    /\ UNCHANGED <<max_pages, product_urls, category_urls, llm_patterns, visited_urls,
                   priority_queue, crawl_products, cpc, fetched, refetched, readded,
                   verdicts, dispatch_log, notCrawl>>

\* crawl_url, lines 410-433: the links are extracted and the result returned
WorkerLinks(i) ==
    /\ cpc = "gather" /\ workers[i].pc = "links"
    /\ LET url == workers[i].entry[2]
           page == Site(url)
           page_type == workers[i].page_type
           valid == page_type = PRODUCT /\ workers[i].result.valid
           listed == page_type \in {CATEGORY, LISTING}
       IN  \/ WorkerReturn(i, None)
           \/ \E product_links \in Perms(IF listed
                                         THEN ProductLinkSet(page, product_url_patterns)
                                         ELSE {}),
                 next_pages \in Perms(IF listed THEN {_clean_url(l) : l \in page.pagination}
                                      ELSE {}) :
                 LET other_links == IF listed THEN <<>>
                                    ELSE _extract_promising_links(page, product_url_patterns)
                 IN  WorkerReturn(i, [is_none |-> FALSE,
                                      url |-> url,
                                      page_type |-> IF page_type = PRODUCT /\ ~valid
                                                    THEN OTHER_PAGE ELSE page_type,
                                      product_data |-> valid,
                                      product_links |-> product_links,
                                      next_pages |-> next_pages,
                                      other_links |-> SubSeq(other_links, 1,
                                                             Min(20, Len(other_links)))])
    /\ UNCHANGED <<max_pages, product_urls, category_urls, llm_patterns,
                   product_url_patterns, visited_urls, priority_queue, crawl_products,
                   cpc, fetched, refetched, readded, verdicts, dispatch_log, unlocked,
                   notCrawl>>

\* _intelligent_crawl, lines 453-483 and the loop's head: the batch's results
\* are merged into the queue
CrawlCollect ==
    /\ cpc = "gather"
    /\ \A i \in DOMAIN workers : workers[i].pc = "done"
    /\ LET results == [i \in DOMAIN workers |-> workers[i].result] IN
       /\ crawl_products' = crawl_products \o FoundProducts(results)
       /\ LoopHead(MergeResults(priority_queue, results, visited_urls))
       /\ dispatch_log' = Logged(dispatch_log,
                                 MergesOrder(priority_queue, results, visited_urls), Taken)
       /\ unlocked' = IF workers' # <<>> THEN unlocked \cup {<<"loop", "priority_queue">>}
                      ELSE unlocked
    /\ UNCHANGED <<max_pages, product_urls, category_urls, llm_patterns,
                   product_url_patterns, visited_urls, semaphore, fetched, refetched,
                   readded, verdicts, notCrawl>>

CrawlNext ==
    \/ CrawlStart
    \/ \E i \in DOMAIN workers : WorkerEnter(i)
    \/ \E i \in DOMAIN workers : WorkerFetch(i)
    \/ \E i \in DOMAIN workers : WorkerExtract(i)
    \/ \E i \in DOMAIN workers : WorkerLinks(i)
    \/ CrawlCollect

\* ------------------------------------------------ claims on the crawl pool
\* C2: in the crawl pool no URL is fetched twice and no URL enters the
\* visited set twice, in any batch and any interleaving of the workers.
C2_NoUrlFetchedTwice == refetched = {} /\ readded = {}

\* two workers of one batch hold the same URL; one fetched it, the other
\* returned at the visited test
C2_Witness ==
    \E i, j \in DOMAIN workers :
        /\ i # j /\ workers[i].entry[2] = workers[j].entry[2]
        /\ workers[i].entry[2] \in fetched
        /\ workers[i].pc \notin {"wait", "fetch"}
        /\ workers[j].pc = "done" /\ workers[j].result = None

\* C3: the visited set never holds more URLs than the page budget max_pages.
C3_VisitedWithinBudget == Cardinality(visited_urls) <= max_pages

\* the crawl returned with the budget used up and URLs left on the frontier
C3_Witness ==
    /\ cpc = "done" /\ max_pages > 0 /\ Cardinality(visited_urls) = max_pages
    /\ priority_queue # <<>> /\ Cardinality(fetched) = max_pages

\* the patterns the workers have learned since the pool started
LearnedInRun == Range(product_url_patterns) \ Range(llm_patterns)

\* C9 as stated: a URL with its page signals gets the same PageType at any
\* point of a run, whatever the pattern store has learned in between.
C9_SameVerdictAnyTime == \A r \in verdicts : r[2] = r[3]

\* C9 as amended: a URL with its page signals gets the PageType it would have
\* got when the pool started, unless a product-URL pattern that occurs in the
\* URL was learned in between, and then the verdict is PRODUCT.
C9_SameVerdictUpToLearnedPattern ==
    \A r \in verdicts :
        r[2] # r[3] =>
            r[2] = PRODUCT /\ ContainsAny(r[1], LearnedInRun)

\* a page classified PRODUCT that was no product page when the pool started
C9_Witness ==
    \E r \in verdicts : r[2] = PRODUCT /\ r[3] = OTHER_PAGE

\* the priorities of a list of tasks never go up
NonIncreasing(tasks) == \A i, j \in DOMAIN tasks : i < j => tasks[i][1] >= tasks[j][1]

\* the batch the pool took last, in the order it was taken
Batch == [i \in DOMAIN workers |-> workers[i].entry]

\* C14: whenever a batch has been taken, the frontier it was taken from was
\* sorted by non-increasing priority: the batch followed by the rest is, so
\* no task left in the frontier has a higher priority than a task of the
\* batch; the frontier itself is sorted after seeding and after every merge.
C14_FrontierSorted ==
    /\ NonIncreasing(priority_queue)
    /\ cpc = "gather" =>
          /\ NonIncreasing(Batch \o priority_queue)
          /\ \A i \in DOMAIN Batch, j \in DOMAIN priority_queue :
                Batch[i][1] >= priority_queue[j][1]

\* a batch taken after a merge: it holds a link a listing page gave, and
\* the frontier holds the page's other link and the seeded paths
C14_Witness ==
    /\ cpc = "gather"
    /\ visited_urls # {}
    /\ \E i \in DOMAIN Batch : Batch[i][1] = 95
    /\ \E j \in DOMAIN priority_queue : priority_queue[j][1] = 95
    /\ \E j \in DOMAIN priority_queue : priority_queue[j][1] = 70

\* What is left to do, as a number: the page budget not yet used weighs more
\* than a worker's way through crawl_url, a worker's way more than the links
\* its result can add to the frontier (20 generic links and the few product
\* and pagination links of a page of the site), and every task of the
\* frontier or of a result weighs 2.
ResultLinks(result) ==
    IF result = None THEN 0
    ELSE Len(result.product_links) + Len(result.next_pages) + Len(result.other_links)

WorkerRank(w) ==
    CASE w.pc = "wait" -> 2
      [] w.pc = "fetch" -> 52
      [] w.pc = "extract" -> 51
      [] w.pc = "links" -> 50
      [] w.pc = "done" -> 1 + 2 * ResultLinks(w.result)

RECURSIVE SumRanks(_)
SumRanks(ws) == IF ws = <<>> THEN 0 ELSE WorkerRank(Head(ws)) + SumRanks(Tail(ws))

Rank ==
    (IF cpc = "start" THEN 100 ELSE 0)
    + 100 * (max_pages - Cardinality(visited_urls))
    + 2 * Len(priority_queue)
    + SumRanks(workers)

\* the pool has stopped, or one of its coroutines can go on: the batch loop,
\* a worker past the limiter, or a waiting worker for which a slot is free
CanGoOn ==
    \/ cpc \in {"start", "done"}
    \/ \A i \in DOMAIN workers : workers[i].pc = "done"
    \/ \E i \in DOMAIN workers : workers[i].pc \in {"fetch", "extract", "links"}
    \/ \E i \in DOMAIN workers : workers[i].pc = "wait" /\ semaphore > 0

C16_DiscoveryOrder ==
    \A i, j \in DOMAIN dispatch_log :
        /\ i < j
        /\ dispatch_log[i].entry[1] = dispatch_log[j].entry[1]
        /\ dispatch_log[j].batch > 0
        => dispatch_log[i].batch <= dispatch_log[j].batch

\* the URL matches the static skip-list
OnSkipList(url) == \E pattern \in skip_patterns : Contains(url, pattern)

\* C24: a task whose URL matches the static skip-list is never fetched by the
\* pool: no page is opened for it, it does not enter the visited set and so
\* takes nothing of the page budget.
C24_SkipListNeverFetched ==
    /\ \A url \in fetched \cup visited_urls : ~OnSkipList(url)
    /\ \A i \in DOMAIN workers :
          OnSkipList(workers[i].entry[2]) =>
              workers[i].pc \in {"wait", "done"} /\ workers[i].result = None

\* the batch held /shop and /cart: /shop was fetched, the task of /cart is
\* over and the budget still has the page /cart did not take
C24_Witness ==
    /\ cpc = "gather"
    /\ \E i \in DOMAIN workers :
          workers[i].entry[2] = u_cart /\ workers[i].pc = "done"
    /\ visited_urls = {u_shop} /\ fetched = {u_shop}
    /\ BudgetLeft(visited_urls, max_pages) = 1

\* C25: every URL of the visited set is in normalized form (no fragment, no
\* trailing slash) whatever its origin, so two spellings of one page that
\* differ only by fragment or trailing slash are never both fetched.
C25_VisitedNormalized ==
    /\ \A url \in visited_urls : _clean_url(url) = url
    /\ \A u1, u2 \in fetched : _clean_url(u1) = _clean_url(u2) => u1 = u2

\* the frontier as the loop head last saw it: the batch it took, then the rest
Frontier == [i \in DOMAIN workers |-> workers[i].entry] \o priority_queue

\* C29: at every point of the crawl the frontier holds at most one task per
\* URL: neither the seeding (categories, homepage, common paths, sitemap
\* products) nor the merge of product, pagination and generic links enqueues
\* a URL that is already queued.
C29_OneTaskPerUrl ==
    \A i, j \in DOMAIN Frontier : Frontier[i][2] = Frontier[j][2] => i = j

\* C20: every mutation of the shared run state (the frontier, the visited
\* set, the pattern store, the counters) is made by a task that holds the
\* lock: the batch loop writes nothing outside it and no worker appends to
\* the pattern store outside it.
C20_WritesUnderLock == unlocked = {}

\* ------------------------------------------------------ the sitemap phase
\* Largest number of <loc> entries of one sitemap document
MaxLocs == 2

\* the six well-known paths of _crawl_sitemap, a file name in its pieces
sitemap_urls ==
    <<U(<<"/", "sitemap", ".xml">>),
      U(<<"/", "sitemap", "_", "index", ".xml">>),
      U(<<"/", "product", "-", "sitemap", ".xml">>),
      U(<<"/", "sitemap", "_", "products", ".xml">>),
      U(<<"/", "sitemap", "-", "products", ".xml">>),
      U(<<"/", "product", "_", "sitemap", ".xml">>)>>

sm_a == U(<<"/", "sitemap", "-", "a", ".xml">>)
sm_b == U(<<"/", "sitemap", "-", "b", ".xml">>)
u_product_b == U(<<"/", "product", "/", "b">>)

\* 'sitemap' in url.lower() and '.xml' in url.lower()
IsSitemapUrl(url) == Contains(url, <<"sitemap">>) /\ Contains(url, <<".xml">>)

\* _looks_like_product_url_sitemap: a learned pattern or '/product'
_looks_like_product_url_sitemap(url, pats) ==
    ContainsAny(url, Range(pats)) \/ Contains(url, Kw("product"))

Missing == [found |-> FALSE, locs |-> {}]
Docs(S) == {Missing} \cup {[found |-> TRUE, locs |-> x] :
                              x \in {y \in SUBSET S : Cardinality(y) <= MaxLocs}}

\* the document a fetch of the URL gives
SitemapAt(url) == IF url \in DOMAIN sitemaps THEN sitemaps[url] ELSE Missing

\* _crawl_nested_sitemap: the product URLs one nested sitemap adds
_crawl_nested_sitemap(url, pats) ==
    {l \in SitemapAt(url).locs : _looks_like_product_url_sitemap(l, pats)}

\* a nested sitemap that is followed one level further
NestedFetchesDeeper(url) == 1 + Cardinality({l \in SitemapAt(url).locs : IsSitemapUrl(l)})

\* the fetches of one call of _crawl_nested_sitemap: its page.goto, and nothing
\* for the sitemaps the document lists, which are not followed
NestedFetches(url) == 1

\* the fetches of the calls for the nested sitemaps of one document
RECURSIVE FetchesOf(_)
FetchesOf(nested) ==
    IF nested = {} THEN 0
    ELSE LET n == CHOOSE x \in nested : TRUE IN NestedFetches(n) + FetchesOf(nested \ {n})

SitemapInit ==
    /\ \E top1 \in Docs({sm_a, sm_b, u_product_a}),
          top2 \in Docs({sm_a, sm_b, u_product_a}),
          a \in Docs({sm_a, sm_b, u_product_a, u_product_b}),
          b \in Docs({sm_a, u_product_b, u_plain}) :
          sitemaps = (sitemap_urls[1] :> top1) @@ (sitemap_urls[2] :> top2)
                         @@ (sm_a :> a) @@ (sm_b :> b)
    /\ sm_idx = 1
    /\ spc = "probe"
    /\ sm_found = {} /\ sm_failed = {} /\ sm_fetches = 0
    /\ PipeIdle /\ ClsIdle /\ CrawlIdle /\ CallIdle

\* one turn of the loop over sitemap_urls, lines 116-148: the path is fetched,
\* every <loc> is taken as a nested sitemap or as a product URL, and the phase
\* returns once it has a product URL
SitemapProbe ==
    /\ spc = "probe"
    /\ LET sitemap_url == sitemap_urls[sm_idx]
           doc == SitemapAt(sitemap_url)
           nested == {l \in doc.locs : IsSitemapUrl(l)}
           direct == {l \in doc.locs \ nested :
                         _looks_like_product_url_sitemap(l, product_url_patterns)}
           next == IF sm_idx = Len(sitemap_urls) THEN "close" ELSE "probe"
       IN  \/ /\ sm_fetches' = sm_fetches + 1
              /\ sm_failed' = IF doc.found THEN sm_failed \cup {sitemap_url} ELSE sm_failed
              /\ sm_idx' = sm_idx + 1
              /\ spc' = next
              /\ UNCHANGED <<product_urls, sm_found>>
           \/ /\ doc.found
              /\ \E failing \in SUBSET nested :
                    /\ sm_failed' = sm_failed \cup {n \in failing : SitemapAt(n).found}
                    /\ product_urls' =
                           product_urls \cup direct \cup
                           UNION {_crawl_nested_sitemap(n, product_url_patterns) :
                                     n \in nested \ failing}
              /\ sm_fetches' = sm_fetches + 1 + FetchesOf(nested)
              /\ sm_found' = sm_found \cup {sitemap_url}
              /\ sm_idx' = sm_idx + 1
              /\ spc' = IF product_urls' # {} THEN "close" ELSE next
    /\ UNCHANGED <<sitemaps, notSitemap>>

\* the finally clause, lines 150-151: the page is closed, or closing raises
SitemapClose ==
    /\ spc = "close"
    /\ spc' \in {"returned", "raised"}
    /\ UNCHANGED <<sitemaps, sm_idx, product_urls, sm_found, sm_failed, sm_fetches,
                   notSitemap>>

SitemapNext ==
    \/ SitemapProbe
    \/ SitemapClose

\* ----------------------------------------------- claims on the sitemap phase
\* the sitemaps reached from a document by following references whose fetch
\* did not fail, to any depth
RECURSIVE ReachedFrom(_, _)
ReachedFrom(urls, depth) ==
    IF depth = 0 THEN urls
    ELSE ReachedFrom(urls \cup {l \in UNION {SitemapAt(u).locs : u \in urls} :
                                   IsSitemapUrl(l) /\ SitemapAt(l).found
                                   /\ l \notin sm_failed},
                     depth - 1)

\* the product URLs listed in the sitemaps reached from the well-known
\* documents that were read
ListedProducts ==
    {l \in UNION {SitemapAt(u).locs : u \in ReachedFrom(sm_found, 3)} :
        ~IsSitemapUrl(l) /\ _looks_like_product_url_sitemap(l, product_url_patterns)}

\* C10: when the phase has returned, every product URL listed in a sitemap
\* reached from a well-known document, at any nesting depth, is in the
\* discovered product set (a set holds it once).
C10_NestedSitemapsExpanded ==
    spc = "returned" => ListedProducts \subseteq product_urls

\* the <loc> entries of the well-known documents probed so far
RECURSIVE LocEntries(_)
LocEntries(probed) ==
    IF probed = 0 THEN 0
    ELSE Cardinality(SitemapAt(sitemap_urls[probed]).locs) + LocEntries(probed - 1)

\* the steps the phase has left at most: the paths to probe, then the close
SitemapRank ==
    CASE spc = "probe" -> Len(sitemap_urls) - sm_idx + 2
      [] spc = "close" -> 1
      [] OTHER -> 0

NoText == <<>>
HasWord(text, w) == \E i \in DOMAIN text : text[i] = w
HasAnyWord(text, ws) == \E i \in DOMAIN text : text[i] \in ws
HasPhrase(text, phrase) ==
    \E i \in 1..(Len(text) - Len(phrase) + 1) :
        \A j \in DOMAIN phrase : text[i + j - 1] = phrase[j]

\* the words of the model's replies that hold the letters "no"
WordsWithNo == {"no", "not", "none", "unknown"}

\* Longest reply of the AI service, in lines
MaxLines == 2

\* a line "key: value" of a reply, and a line without a colon
Line(key, value) == [colon |-> TRUE, key |-> key, value |-> value]
Prose == [colon |-> FALSE]

\* what _parse_inference_result starts from
ParseDefaults ==
    [is_valid_product |-> TRUE, skip_reason |-> NoText, jewelry_type |-> NoText,
     gemstone |-> NoText, gemstone_color |-> NoText, metal_color |-> NoText,
     summary |-> NoText, vibe |-> <<"casual">>, confidence |-> <<>>]

vibe_words ==
    <<"wedding", "engagement", "casual", "festive", "formal", "date-night", "everyday",
      "party">>

\* the first vibe word the value holds, or the vibe so far
FirstVibe(value, vibe) ==
    LET hits == {i \in DOMAIN vibe_words : HasWord(value, vibe_words[i])} IN
    IF hits = {} THEN vibe
    ELSE <<vibe_words[CHOOSE i \in hits : \A j \in hits : i <= j]>>

\* d["confidence"][key] = c, as a sequence of the pairs set
SetConfidence(conf, key, c) ==
    SelectSeq(conf, LAMBDA e : e[1] # key) \o <<<<key, c>>>>

\* the body of the loop of _parse_inference_result for one line
ParseLine(inferred, line) ==
    IF ~line.colon THEN inferred
    ELSE LET key == line.key
             value == line.value
         IN  IF HasPhrase(key, <<"valid", "product">>)
             THEN IF HasAnyWord(value, WordsWithNo)
                  THEN [inferred EXCEPT !.is_valid_product = FALSE]
                  ELSE inferred
             ELSE IF HasPhrase(key, <<"skip", "reason">>)
             THEN [inferred EXCEPT !.skip_reason = value]
             ELSE IF HasWord(key, "summary") THEN [inferred EXCEPT !.summary = value]
             ELSE IF HasWord(key, "vibe")
             THEN [inferred EXCEPT !.vibe = FirstVibe(value, inferred.vibe)]
             ELSE IF value = NoText
                     \/ value \in {<<"none", "visible">>, <<"n/a">>, <<"none">>, <<"unknown">>}
             THEN inferred
             ELSE IF HasPhrase(key, <<"jewelry", "type">>)
                     \/ (HasWord(key, "type") /\ ~HasWord(key, "valid")
                         /\ ~HasWord(key, "vibe"))
             THEN [inferred EXCEPT !.jewelry_type = value,
                                   !.confidence = SetConfidence(@, "jewelry_type", 85)]
             ELSE IF HasWord(key, "gemstone") /\ ~HasWord(key, "color")
             THEN [inferred EXCEPT !.gemstone = value,
                                   !.confidence = SetConfidence(@, "gemstone", 80)]
             ELSE IF HasPhrase(key, <<"gemstone", "color">>)
                     \/ HasPhrase(key, <<"stone", "color">>)
             THEN [inferred EXCEPT !.gemstone_color = value,
                                   !.confidence = SetConfidence(@, "gemstone_color", 75)]
             ELSE IF HasPhrase(key, <<"metal", "color">>)
                     \/ (HasWord(key, "metal") /\ ~HasWord(key, "color"))
             THEN [inferred EXCEPT !.metal_color = value,
                                   !.confidence = SetConfidence(@, "metal_color", 85)]
             ELSE inferred

RECURSIVE ParseLines(_, _)
ParseLines(inferred, lines) ==
    IF lines = <<>> THEN inferred
    ELSE ParseLines(ParseLine(inferred, Head(lines)), Tail(lines))

\* a reply whose message has no content: result_text is None
NoContent == [content |-> FALSE]
Reply(lines) == [content |-> TRUE, lines |-> lines]

\* _parse_inference_result: the strip of a None raises inside the try, the
\* except logs it and the defaults are returned
_parse_inference_result(result_text) ==
    IF ~result_text.content THEN ParseDefaults
    ELSE ParseLines(ParseDefaults, result_text.lines)

gemstone_colors ==
    {<<"diamond", "white">>, <<"ruby", "red">>, <<"sapphire", "blue">>,
     <<"emerald", "green">>, <<"pearl", "white">>, <<"amethyst", "purple">>,
     <<"topaz", "blue">>, <<"garnet", "red">>}

\* _fallback_inference: the attributes the extracted data gives by rule
_fallback_inference(extracted_data) ==
    LET metal == extracted_data.metal
        gemstone == extracted_data.gemstone
        name == extracted_data.name
        jewel_type == extracted_data.jewel_type
        metal_color ==
            IF metal = NoText THEN NoText
            ELSE IF HasWord(metal, "white") THEN <<"white", "gold">>
            ELSE IF HasWord(metal, "yellow") THEN <<"yellow", "gold">>
            ELSE IF HasWord(metal, "rose") \/ HasWord(metal, "pink") THEN <<"rose", "gold">>
            ELSE IF HasWord(metal, "silver") THEN <<"silver">>
            ELSE IF HasWord(metal, "platinum") THEN <<"platinum">>
            ELSE NoText
        gemstone_color ==
            IF gemstone # NoText /\ \E e \in gemstone_colors : gemstone = <<e[1]>>
            THEN <<(CHOOSE e \in gemstone_colors : gemstone = <<e[1]>>)[2]>>
            ELSE NoText
        summary ==
            (IF jewel_type # NoText THEN <<"a", "beautiful">> \o jewel_type
             ELSE <<"a", "beautiful", "jewelry", "piece">>)
            \o (IF metal # NoText THEN <<"crafted", "in">> \o metal ELSE <<>>)
            \o (IF gemstone # NoText THEN <<"featuring">> \o gemstone ELSE <<>>)
            \o <<".">>
        vibe ==
            IF HasAnyWord(name, {"wedding", "bridal", "engagement"})
            THEN (IF HasWord(name, "wedding") THEN "wedding" ELSE "engagement")
            ELSE IF jewel_type = <<"ring">> /\ HasWord(gemstone, "diamond") THEN "engagement"
            ELSE IF HasAnyWord(name, {"festive", "celebration", "festival"}) THEN "festive"
            ELSE IF HasAnyWord(name, {"formal", "gala", "elegant", "luxury"}) THEN "formal"
            ELSE IF HasAnyWord(name, {"party", "cocktail", "evening"}) THEN "party"
            ELSE IF HasAnyWord(name, {"romantic", "date", "evening"}) THEN "date-night"
            ELSE IF HasAnyWord(name, {"everyday", "daily", "simple", "minimalist"})
            THEN "everyday"
            ELSE "casual"
        attrs == <<<<"jewelry_type", jewel_type>>, <<"gemstone", gemstone>>,
                   <<"gemstone_color", gemstone_color>>, <<"metal_color", metal_color>>>>
        set == SelectSeq(attrs, LAMBDA e : e[2] # NoText)
    IN  [jewelry_type |-> jewel_type, gemstone |-> gemstone,
         gemstone_color |-> gemstone_color, metal_color |-> metal_color,
         summary |-> summary, vibe |-> <<vibe>>,
         confidence |-> [i \in DOMAIN set |-> <<set[i][1], 50>>]]

\* what the awaits of infer_attributes can give: the download of a local image
\* or the completion call raises, or the service answers
Raises == [raised |-> TRUE]
Answer(result_text) == [raised |-> FALSE, result_text |-> result_text]

\* infer_attributes(images, extracted_data) of an agent with or without a
\* client; service: what the call gives if it is made
infer_attributes(client, images, extracted_data, service) ==
    IF ~client \/ images = <<>> THEN _fallback_inference(extracted_data)
    ELSE IF service.raised THEN _fallback_inference(extracted_data)
    ELSE LET inferred == _parse_inference_result(service.result_text) IN
         IF ~inferred.is_valid_product THEN None ELSE inferred

\* the awaits of client.chat.completions.create in one infer_attributes: the
\* call of lines 53-66 stands in no loop and under no retry decorator
CreateCalls(client, images) == IF ~client \/ images = <<>> THEN 0 ELSE 1

\* ---- the calls the model tries
ReplyLines ==
    {Line(<<"valid", "product">>, <<"yes">>), Line(<<"valid", "product">>, <<"no">>),
     Line(<<"valid", "product">>, <<"unknown">>),
     Line(<<"jewelry", "type">>, <<"ring">>),
     Line(<<"gemstone">>, <<"none", "visible">>),
     Line(<<"vibe">>, <<"wedding">>),
     Prose}

RECURSIVE SeqsUpTo(_, _)
SeqsUpTo(S, n) ==
    IF n = 0 THEN {<<>>}
    ELSE LET shorter == SeqsUpTo(S, n - 1) IN
         shorter \cup {Append(q, x) : q \in shorter, x \in S}

Services == {Raises, Answer(NoContent)} \cup {Answer(Reply(ls)) : ls \in SeqsUpTo(ReplyLines, MaxLines)}

ExtractedData ==
    [name : {<<"unknown", "product">>, <<"bridal", "set">>},
     metal : {NoText, <<"rose", "gold">>},
     gemstone : {NoText, <<"diamond">>},
     jewel_type : {NoText, <<"ring">>}]

InferInputs ==
    [fn : {"infer_attributes"}, client : BOOLEAN,
     images : {<<>>, <<"http://gems.test/a.jpg">>}, extracted_data : ExtractedData,
     service : Services]

InferInit ==
    /\ call_in \in InferInputs
    /\ call_out = [pc |-> "infer"]
    /\ PipeIdle /\ ClsIdle /\ CrawlIdle /\ SitemapIdle

\* process_product, line 121: the await of infer_attributes
InferCall ==
    /\ call_in.fn = "infer_attributes"
    /\ call_out.pc = "infer"
    /\ call_out' = [pc |-> "inferred",
                    attempts |-> CreateCalls(call_in.client, call_in.images),
                    inferred_data |-> infer_attributes(call_in.client, call_in.images,
                                                       call_in.extracted_data,
                                                       call_in.service)]
    /\ UNCHANGED <<call_in, notCall>>

\* process_product, lines 123-143: a None skips the candidate, anything else
\* goes to store_jewel
InferConsume ==
    /\ call_in.fn = "infer_attributes"
    /\ call_out.pc = "inferred"
    /\ call_out' = [call_out EXCEPT !.pc = IF call_out.inferred_data = None THEN "skipped"
                                           ELSE "store"]
    /\ UNCHANGED <<call_in, notCall>>

InferNext ==
    \/ InferCall
    \/ InferConsume

\* ------------------------------------------ claims on the inference agent
\* the enrichment failed: no client, no image, an error of the call, or a
\* reply without content or without a single "key: value" line
ReplyMalformed(service) ==
    /\ ~service.raised
    /\ \/ ~service.result_text.content
       \/ \A i \in DOMAIN service.result_text.lines : ~service.result_text.lines[i].colon

EnrichmentFailed ==
    \/ ~call_in.client
    \/ call_in.images = <<>>
    \/ call_in.service.raised
    \/ ReplyMalformed(call_in.service)

\* the service was asked and its reply has the line "Valid Product: No"
ExplicitNotAProduct ==
    /\ call_in.client /\ call_in.images # <<>> /\ ~call_in.service.raised
    /\ call_in.service.result_text.content
    /\ \E i \in DOMAIN call_in.service.result_text.lines :
          call_in.service.result_text.lines[i] = Line(<<"valid", "product">>, <<"no">>)

\* C11: when the enrichment fails (no client, no images, call error, malformed
\* reply) infer_attributes returns what the rule-based fallback gives and the
\* candidate goes on to storage; a candidate is skipped at this step only on
\* an explicit "not a specific product" verdict of the AI.
C11_FallbackOnFailure ==
    /\ (call_in.fn = "infer_attributes" /\ call_out.pc # "infer" /\ EnrichmentFailed) =>
          /\ call_out.inferred_data = _fallback_inference(call_in.extracted_data)
          /\ call_out.pc \in {"inferred", "store"}
    /\ call_out.pc = "skipped" => ExplicitNotAProduct

\* C23: when the AI call of a candidate fails, it is retried, 3 attempts in
\* all, before the rule-based fallback is used: the fallback is never taken
\* after a single failed attempt.
C23_ThreeAttemptsBeforeFallback ==
    (/\ call_in.fn = "infer_attributes" /\ call_out.pc # "infer"
     /\ call_in.client /\ call_in.images # <<>> /\ call_in.service.raised) =>
        call_out.attempts = 3

\* ------------------------------------------- product links of one page
\* Largest number of anchors the learned selectors match on a page
MaxLearned == 5

\* the anchors of the pages tried: product URLs by number, and an anchor that
\* leaves the site
ProductUrl(i) == U(<<"/", "product", "/", ToString(i)>>)
u_offsite == <<"https:", "/", "/", "other.test", "/", "product", "/", "z">>

LinkPages ==
    {[SitePage(BareSig, <<>>, cards, imgs, {}) EXCEPT
          !.learned_links = {ProductUrl(i) : i \in 1..n},
          !.context_links = context] :
        n \in 0..MaxLearned,
        cards \in SUBSET {ProductUrl(1), ProductUrl(MaxLearned + 1), u_cart},
        context \in SUBSET {ProductUrl(MaxLearned + 2), u_rings_x_raw},
        imgs \in SUBSET {u_cart, u_home, u_offsite}}

LinksInputs ==
    [fn : {"_extract_product_links_multi_strategy"}, page : LinkPages,
     selectors : {<<>>, <<"a.product-link">>}, pats : {<<>>}]

LinksInit ==
    /\ call_in \in LinksInputs
    /\ call_out = [pc |-> "call"]
    /\ PipeIdle /\ ClsIdle /\ CrawlIdle /\ SitemapIdle

\* crawl_url, line 412: the product links of a category or listing page
ExtractProductLinks ==
    /\ call_in.fn = "_extract_product_links_multi_strategy"
    /\ call_out.pc = "call"
    /\ LET r == _extract_product_links_multi_strategy(call_in.page, call_in.pats,
                                                      call_in.selectors)
       IN  call_out' = [pc |-> "returned", links |-> r.links, ran |-> r.ran]
    /\ UNCHANGED <<call_in, notCall>>

LinksNext == ExtractProductLinks

\* ---- claims on the product links
LinksReturned ==
    call_in.fn = "_extract_product_links_multi_strategy" /\ call_out.pc = "returned"

\* what the learned selectors alone yield, and with the card selectors
LearnedYield ==
    IF call_in.selectors = <<>> THEN {}
    ELSE {_clean_url(l) : l \in {c \in call_in.page.learned_links :
                                    _looks_like_product_url(c, call_in.pats)}}
SelectorYield ==
    LearnedYield \cup {_clean_url(l) : l \in {c \in call_in.page.card_links :
                                                _is_same_domain(c)
                                                /\ _looks_like_product_url(c, call_in.pats)}}
Ran(k) == \E i \in DOMAIN call_out.ran : call_out.ran[i] = k
InOrder == \A i, j \in DOMAIN call_out.ran : i < j => call_out.ran[i] < call_out.ran[j]

\* C12 as stated: the strategies run in the order 1, 2, 3, 4 and the chain
\* stops once enough links are there; when the learned selectors alone yield
\* 5 links or more, strategies 2, 3 and 4 do not run.
C12_StopsAfterLearned ==
    LinksReturned =>
        /\ InOrder
        /\ Cardinality(LearnedYield) >= 5 => call_out.ran = <<1>>

\* C12, amended: the strategies run in the order 1, 2, 3, 4; the learned and
\* the card selectors always run, the contextual scan runs exactly when these
\* two left fewer than 5 links and the image fallback exactly when fewer than
\* 3 links are there after the scan; when the learned selectors alone yield 5
\* links or more, strategy 2 still runs, strategies 3 and 4 do not, and the
\* result is what the selectors yield.
C12_StopsAfterSelectors ==
    LinksReturned =>
        /\ InOrder
        /\ Ran(1) /\ Ran(2)
        /\ Ran(3) <=> Cardinality(SelectorYield) < 5
        /\ Ran(4) => Cardinality(SelectorYield) < 3
        /\ ~Ran(4) => Cardinality(call_out.links) >= 3
        /\ Cardinality(LearnedYield) >= 5 =>
              (call_out.ran = <<1, 2>> /\ call_out.links = SelectorYield)

\* the learned selectors give 5 links, the card selectors one more, and the
\* page has anchors the scan and the fallback would have taken
C12_Witness ==
    /\ LinksReturned
    /\ Cardinality(LearnedYield) >= 5
    /\ Cardinality(call_out.links) > Cardinality(LearnedYield)
    /\ ProductUrl(MaxLearned + 2) \in call_in.page.context_links
    /\ u_cart \in call_in.page.img_links

\* ----------------------------------------------------- the normalizer
\* A string is the sequence of its characters; "key in s" is the test for a
\* contiguous run of characters.
UpperCase ==
    <<"A", "B", "C", "D", "E", "F", "G", "H", "I", "J", "K", "L", "M", "N", "O", "P", "Q",
      "R", "S", "T", "U", "V", "W", "X", "Y", "Z">>
LowerCase ==
    <<"a", "b", "c", "d", "e", "f", "g", "h", "i", "j", "k", "l", "m", "n", "o", "p", "q",
      "r", "s", "t", "u", "v", "w", "x", "y", "z">>
Digits == {"0", "1", "2", "3", "4", "5", "6", "7", "8", "9"}

\* str.lower() and str.upper()
LowerChar(c) ==
    IF \E i \in DOMAIN UpperCase : UpperCase[i] = c
    THEN LowerCase[CHOOSE i \in DOMAIN UpperCase : UpperCase[i] = c] ELSE c
UpperChar(c) ==
    IF \E i \in DOMAIN LowerCase : LowerCase[i] = c
    THEN UpperCase[CHOOSE i \in DOMAIN LowerCase : LowerCase[i] = c] ELSE c
lower(s) == [i \in DOMAIN s |-> LowerChar(s[i])]
upper(s) == [i \in DOMAIN s |-> UpperChar(s[i])]
\* str.title(): every word starts with a capital
title(s) == [i \in DOMAIN s |-> IF i = 1 \/ s[i - 1] = " " THEN UpperChar(s[i]) ELSE s[i]]

\* key in s
IsSubstr(key, s) ==
    \E i \in 0..(Len(s) - Len(key)) : SubSeq(s, i + 1, i + Len(key)) = key

\* a string result, None being the record None
Str(s) == [is_none |-> FALSE, text |-> s]

\* the dict metal_map, in the order of its items
metal_map ==
    <<
      <<<<"p", "l", "a", "t", "i", "n", "u", "m">>,
        <<"p", "l", "a", "t", "i", "n", "u", "m">>>>,
      <<<<"p", "a", "l", "l", "a", "d", "i", "u", "m">>,
        <<"p", "a", "l", "l", "a", "d", "i", "u", "m">>>>,
      <<<<"s", "i", "l", "v", "e", "r">>,
        <<"s", "i", "l", "v", "e", "r">>>>,
      <<<<"s", "t", "e", "r", "l", "i", "n", "g", " ", "s", "i", "l", "v", "e", "r">>,
        <<"s", "t", "e", "r", "l", "i", "n", "g", " ", "s", "i", "l", "v", "e", "r">>>>,
      <<<<"t", "i", "t", "a", "n", "i", "u", "m">>,
        <<"t", "i", "t", "a", "n", "i", "u", "m">>>>,
      <<<<"s", "t", "a", "i", "n", "l", "e", "s", "s", " ", "s", "t", "e", "e", "l">>,
        <<"s", "t", "a", "i", "n", "l", "e", "s", "s", " ", "s", "t", "e", "e", "l">>>>,
      <<<<"w", "h", "i", "t", "e", " ", "g", "o", "l", "d">>,
        <<"w", "h", "i", "t", "e", " ", "g", "o", "l", "d">>>>,
      <<<<"y", "e", "l", "l", "o", "w", " ", "g", "o", "l", "d">>,
        <<"y", "e", "l", "l", "o", "w", " ", "g", "o", "l", "d">>>>,
      <<<<"r", "o", "s", "e", " ", "g", "o", "l", "d">>,
        <<"r", "o", "s", "e", " ", "g", "o", "l", "d">>>>,
      <<<<"p", "i", "n", "k", " ", "g", "o", "l", "d">>,
        <<"r", "o", "s", "e", " ", "g", "o", "l", "d">>>>,
      <<<<"g", "o", "l", "d">>,
        <<"g", "o", "l", "d">>>>
    >>

\* the dict gemstone_map
gemstone_map ==
    <<
      <<<<"d", "i", "a", "m", "o", "n", "d">>,
        <<"d", "i", "a", "m", "o", "n", "d">>>>,
      <<<<"r", "u", "b", "y">>,
        <<"r", "u", "b", "y">>>>,
      <<<<"s", "a", "p", "p", "h", "i", "r", "e">>,
        <<"s", "a", "p", "p", "h", "i", "r", "e">>>>,
      <<<<"e", "m", "e", "r", "a", "l", "d">>,
        <<"e", "m", "e", "r", "a", "l", "d">>>>,
      <<<<"p", "e", "a", "r", "l">>,
        <<"p", "e", "a", "r", "l">>>>,
      <<<<"a", "m", "e", "t", "h", "y", "s", "t">>,
        <<"a", "m", "e", "t", "h", "y", "s", "t">>>>,
      <<<<"t", "o", "p", "a", "z">>,
        <<"t", "o", "p", "a", "z">>>>,
      <<<<"g", "a", "r", "n", "e", "t">>,
        <<"g", "a", "r", "n", "e", "t">>>>,
      <<<<"o", "p", "a", "l">>,
        <<"o", "p", "a", "l">>>>,
      <<<<"t", "u", "r", "q", "u", "o", "i", "s", "e">>,
        <<"t", "u", "r", "q", "u", "o", "i", "s", "e">>>>,
      <<<<"a", "q", "u", "a", "m", "a", "r", "i", "n", "e">>,
        <<"a", "q", "u", "a", "m", "a", "r", "i", "n", "e">>>>,
      <<<<"p", "e", "r", "i", "d", "o", "t">>,
        <<"p", "e", "r", "i", "d", "o", "t">>>>,
      <<<<"c", "i", "t", "r", "i", "n", "e">>,
        <<"c", "i", "t", "r", "i", "n", "e">>>>,
      <<<<"t", "a", "n", "z", "a", "n", "i", "t", "e">>,
        <<"t", "a", "n", "z", "a", "n", "i", "t", "e">>>>,
      <<<<"c", "u", "b", "i", "c", " ", "z", "i", "r", "c", "o", "n", "i", "a">>,
        <<"c", "u", "b", "i", "c", " ", "z", "i", "r", "c", "o", "n", "i", "a">>>>,
      <<<<"c", "z">>,
        <<"c", "u", "b", "i", "c", " ", "z", "i", "r", "c", "o", "n", "i", "a">>>>,
      <<<<"m", "o", "i", "s", "s", "a", "n", "i", "t", "e">>,
        <<"m", "o", "i", "s", "s", "a", "n", "i", "t", "e">>>>
    >>

\* the dict type_map
type_map ==
    <<
      <<<<"r", "i", "n", "g">>,
        <<"r", "i", "n", "g">>>>,
      <<<<"b", "a", "n", "d">>,
        <<"r", "i", "n", "g">>>>,
      <<<<"n", "e", "c", "k", "l", "a", "c", "e">>,
        <<"n", "e", "c", "k", "l", "a", "c", "e">>>>,
      <<<<"p", "e", "n", "d", "a", "n", "t">>,
        <<"n", "e", "c", "k", "l", "a", "c", "e">>>>,
      <<<<"c", "h", "a", "i", "n">>,
        <<"n", "e", "c", "k", "l", "a", "c", "e">>>>,
      <<<<"e", "a", "r", "r", "i", "n", "g">>,
        <<"e", "a", "r", "r", "i", "n", "g">>>>,
      <<<<"s", "t", "u", "d">>,
        <<"e", "a", "r", "r", "i", "n", "g">>>>,
      <<<<"h", "o", "o", "p">>,
        <<"e", "a", "r", "r", "i", "n", "g">>>>,
      <<<<"b", "r", "a", "c", "e", "l", "e", "t">>,
        <<"b", "r", "a", "c", "e", "l", "e", "t">>>>,
      <<<<"b", "a", "n", "g", "l", "e">>,
        <<"b", "r", "a", "c", "e", "l", "e", "t">>>>,
      <<<<"c", "u", "f", "f">>,
        <<"b", "r", "a", "c", "e", "l", "e", "t">>>>,
      <<<<"b", "r", "o", "o", "c", "h">>,
        <<"b", "r", "o", "o", "c", "h">>>>,
      <<<<"p", "i", "n">>,
        <<"b", "r", "o", "o", "c", "h">>>>,
      <<<<"a", "n", "k", "l", "e", "t">>,
        <<"a", "n", "k", "l", "e", "t">>>>,
      <<<<"w", "a", "t", "c", "h">>,
        <<"w", "a", "t", "c", "h">>>>
    >>

\* for key, value in map.items(): if key in s: return value; then the default
FirstMatch(map, s, default) ==
    LET hits == {i \in DOMAIN map : IsSubstr(map[i][1], s)} IN
    IF hits = {} THEN Str(default)
    ELSE Str(map[CHOOSE i \in hits : \A j \in hits : i <= j][2])

\* re.search(r'(\d+)\s*k', s): the leftmost run of digits that spaces and a k
\* follow, as the positions of its first and last digit; <<0, 0>> for no match
KaratMatch(s) ==
    LET runs == {r \in (DOMAIN s) \X (DOMAIN s) :
                    /\ r[1] <= r[2]
                    /\ \A i \in r[1]..r[2] : s[i] \in Digits
                    /\ \E k \in (r[2] + 1)..Len(s) :
                          /\ s[k] = "k"
                          /\ \A i \in (r[2] + 1)..(k - 1) : s[i] = " "}
    IN  IF runs = {} THEN <<0, 0>>
        ELSE CHOOSE r \in runs : \A q \in runs : r[1] < q[1] \/ (r[1] = q[1] /\ r[2] >= q[2])

_normalize_metal(metal) ==
    IF metal = <<>> THEN None
    ELSE LET metal_lower == lower(metal)
             karat_match == KaratMatch(metal_lower)
             karat == SubSeq(metal_lower, karat_match[1], karat_match[2])
         IN  IF IsSubstr(<<"k">>, metal_lower) /\ karat_match # <<0, 0>>
             THEN Str(karat \o
                      (IF IsSubstr(<<"w", "h", "i", "t", "e">>, metal_lower) THEN <<"k", "t", " ", "w", "h", "i", "t", "e", " ", "g", "o", "l", "d">>
                       ELSE IF IsSubstr(<<"r", "o", "s", "e">>, metal_lower) \/ IsSubstr(<<"p", "i", "n", "k">>, metal_lower)
                       THEN <<"k", "t", " ", "r", "o", "s", "e", " ", "g", "o", "l", "d">>
                       ELSE IF IsSubstr(<<"y", "e", "l", "l", "o", "w">>, metal_lower) THEN <<"k", "t", " ", "y", "e", "l", "l", "o", "w", " ", "g", "o", "l", "d">>
                       ELSE <<"k", "t", " ", "g", "o", "l", "d">>))
             ELSE FirstMatch(metal_map, metal_lower, metal)

_normalize_gemstone(gemstone) ==
    IF gemstone = <<>> THEN None ELSE FirstMatch(gemstone_map, lower(gemstone), gemstone)

_normalize_jewel_type(jewel_type) ==
    IF jewel_type = <<>> THEN None ELSE FirstMatch(type_map, lower(jewel_type), jewel_type)

\* ---- the lookups the model tries: every key of a table in lower case, in
\* upper case and capitalised, karat notations, a name of no table, and None
Keys(map) == {map[i][1] : i \in DOMAIN map}
Cases(s) == {s, upper(s), title(s)}
Lookups(map) == UNION {Cases(k) : k \in Keys(map)} \cup {<<"b", "r", "a", "s", "s">>, <<>>}

NormalizerInputs ==
    [fn : {"_normalize_metal"},
     arg : Lookups(metal_map) \cup {<<"1", "8", "K", " ", "w", "h", "i", "t", "e", " ", "g", "o", "l", "d">>, <<"1", "8", " ", "k", "a", "r", "a", "t", " ", "g", "o", "l", "d">>, <<"1", "4", "k", "t">>}]
    \cup [fn : {"_normalize_gemstone"}, arg : Lookups(gemstone_map)]
    \cup [fn : {"_normalize_jewel_type"}, arg : Lookups(type_map)]

NormalizerInit ==
    /\ call_in \in NormalizerInputs
    /\ call_out = [pc |-> "call"]
    /\ PipeIdle /\ ClsIdle /\ CrawlIdle /\ SitemapIdle

\* normalize, lines 28-30: one lookup
NormalizeCall ==
    /\ call_in.fn \in {"_normalize_metal", "_normalize_gemstone", "_normalize_jewel_type"}
    /\ call_out.pc = "call"
    /\ call_out' = [pc |-> "returned",
                    result |-> CASE call_in.fn = "_normalize_metal" ->
                                       _normalize_metal(call_in.arg)
                                 [] call_in.fn = "_normalize_gemstone" ->
                                       _normalize_gemstone(call_in.arg)
                                 [] OTHER -> _normalize_jewel_type(call_in.arg)]
    /\ UNCHANGED <<call_in, notCall>>

NormalizerNext == NormalizeCall

\* ---- claims on the normalizer
TableOf(fn) ==
    CASE fn = "_normalize_metal" -> metal_map
      [] fn = "_normalize_gemstone" -> gemstone_map
      [] OTHER -> type_map

\* C13: a lookup of a metal, a gemstone or a jewel type whose input is, in any
\* letter case, a canonical name or a listed variant returns the canonical
\* value of that very table entry, as the tests assert ('Sterling Silver' ->
\* 'sterling silver', 'Earring' -> 'earring', 'stud' -> 'earring').
C13_ListedNameToCanonical ==
    (call_in.fn \in {"_normalize_metal", "_normalize_gemstone", "_normalize_jewel_type"}
     /\ call_out.pc = "returned") =>
        \A i \in DOMAIN TableOf(call_in.fn) :
            lower(call_in.arg) = TableOf(call_in.fn)[i][1] =>
                call_out.result = Str(TableOf(call_in.fn)[i][2])


\* ------------------------------------- the validation of a product page
\* what _extract_product_data can give on a page classified PRODUCT: a URL
\* a pattern can be learned from or one with a single segment, a document
\* that is empty, just too short or long enough, with any of the phrases
ValidateInputs ==
    {[fn |-> "crawl_url", url |-> url, product_data |-> ProductData(url, html, images),
      pats |-> pats] :
        url \in {u_product_a, u_products},
        html \in {Html(0, {})}
                 \cup {Html(len, phrases) : len \in HtmlLengths, phrases \in SUBSET HtmlPhrases},
        images \in 0..MaxImages,
        pats \in {<<>>, <<KwS("product")>>}}

ValidateInit ==
    /\ call_in \in ValidateInputs
    /\ call_out = [pc |-> "call"]
    /\ PipeIdle /\ ClsIdle /\ CrawlIdle /\ SitemapIdle

\* crawl_url, lines 403-408, on a page classified PRODUCT: the result and the
\* pattern store it leaves
ValidateProduct ==
    /\ call_in.fn = "crawl_url"
    /\ call_out.pc = "call"
    /\ LET valid == _validate_product_data(call_in.product_data) IN
       call_out' = [pc |-> "returned",
                    result |-> [url |-> call_in.url,
                                page_type |-> IF valid THEN PRODUCT ELSE OTHER_PAGE,
                                product_data |-> IF valid THEN call_in.product_data
                                                 ELSE None],
                    product_url_patterns |->
                        IF valid THEN _learn_url_pattern(call_in.url, call_in.pats)
                        ELSE call_in.pats]
    /\ UNCHANGED <<call_in, notCall>>

ValidateNext == ValidateProduct

\* ------------------------------- claims on the validation of a product page
Validated == call_out.pc = "returned" /\ call_in.fn = "crawl_url"

\* the page yields its product data as the candidate
Yields ==
    /\ call_out.result.product_data = call_in.product_data
    /\ call_out.result.page_type = PRODUCT

\* the page is downgraded: no candidate, no pattern learned
Downgraded ==
    /\ call_out.result.product_data = None
    /\ call_out.result.page_type = OTHER_PAGE
    /\ call_out.product_url_patterns = call_in.pats

MaxSegments == 5

\* the segments of the links: a word of each keyword list and of the
\* avoid-list
LinkWords == {"product", "jewelry", "ring", "new", "blog"}

RECURSIVE PathFrom(_)
PathFrom(segs) == IF segs = <<>> THEN <<>> ELSE Kw(Head(segs)) \o PathFrom(Tail(segs))

\* the links a page can hold, and the pattern store empty or with '/new/'
PriorityInputs ==
    {[fn |-> "_extract_promising_links", href |-> U(PathFrom(segs)), pats |-> pats] :
        segs \in SeqsUpTo(LinkWords, MaxSegments), pats \in {<<>>, <<KwS("new")>>}}

PriorityInit ==
    /\ call_in \in PriorityInputs
    /\ call_out = [pc |-> "call"]
    /\ PipeIdle /\ ClsIdle /\ CrawlIdle /\ SitemapIdle

\* _extract_promising_links on a page whose only anchor is the link, lines
\* 818-843: the link is cleaned, its priority computed and the link kept if
\* the priority is above 0
ExtractPromisingLinks ==
    /\ call_in.fn = "_extract_promising_links"
    /\ call_out.pc = "call"
    /\ LET clean_url == _clean_url(call_in.href) IN
       call_out' = [pc |-> "returned",
                    clean_url |-> clean_url,
                    priority |-> _calculate_enhanced_link_priority(clean_url, call_in.pats),
                    links |-> _extract_promising_links(
                                  SitePage(BareSig, <<call_in.href>>, {}, {}, {}),
                                  call_in.pats)]
    /\ UNCHANGED <<call_in, notCall>>

PriorityNext == ExtractPromisingLinks

\* ------------------------------------ claims on the priority of a generic link
\* C17: the priority computed for a generic discovered link lies in 0..90 for
\* every URL and every state of the learned patterns, below the 95 of a
\* listing page's links and the 100 of the sitemap's products.
C17_PriorityWithin90 ==
    call_out.pc = "returned" /\ call_in.fn = "_extract_promising_links" =>
        call_out.priority \in 0..90

\* C18: a generic link whose URL matches the avoid-list gets priority 0,
\* whatever its keywords and depth, and the promising-link extraction does
\* not return it.
C18_AvoidedGetsZero ==
    /\ call_out.pc = "returned"
    /\ call_in.fn = "_extract_promising_links"
    /\ ContainsAny(call_out.clean_url, avoid)
    => call_out.priority = 0 /\ call_out.links = <<>>

\* ------------------------------------------- the pipeline over its own crawl
\* run_scraping_pipeline with the crawl pool in the place of crawler.crawl: the
\* pool runs while the pipeline waits at line 74, and the pipeline takes the
\* products the pool returned and the visited set it left. Candidate i of the
\* pipeline is the i-th product of the pool.
\* the homepage of a run has no menu, or the menu with "Shop" and "Shopping cart"
RunMenus == {{}, {u_shop, u_cart}}

RunInit ==
    /\ max_products \in 0..MaxCap
    /\ job_status = QUEUED
    /\ error_message = "none"
    /\ stats_json = NoStats
    /\ stats = Unbound
    /\ ppc = "start"
    /\ exc = "none"
    /\ products = <<>>
    /\ crawl_note = "none"
    /\ tpc = <<>>
    /\ tres = <<>>
    /\ sem = max_concurrent_products
    /\ jewels = {}
    /\ notified = "none"
    /\ max_pages \in 0..MaxPages
    /\ product_urls \in SitemapLists
    /\ category_urls \in RunMenus
    /\ llm_patterns \in LlmPatterns
    /\ product_url_patterns = llm_patterns
    /\ visited_urls = {}
    /\ priority_queue = <<>>
    /\ workers = <<>>
    /\ semaphore = max_concurrent_pages
    /\ crawl_products = <<>>
    /\ cpc = "start"
    /\ fetched = {} /\ refetched = {} /\ readded = {}
    /\ verdicts = {}
    /\ dispatch_log = <<>> /\ unlocked = {}
    /\ ClsIdle /\ SitemapIdle /\ CallIdle

\* lines 74-177 once the pool has returned: the two counters are set from the
\* pool's visited set and product list, then the dispatch loop creates the tasks
PipeCrawled ==
    /\ ppc = "crawl"
    /\ cpc = "done"
    /\ LET n == Len(crawl_products)
           k == DispatchCount(1, n, max_products, stats.products_stored) IN
       /\ products' = [i \in 1..n |-> i]
       /\ stats' = [stats EXCEPT !.pages_crawled = Cardinality(visited_urls),
                                 !.products_found = n]
       /\ tpc' = [i \in 1..k |-> "created"]
       /\ tres' = [i \in 1..k |-> "pending"]
       /\ ppc' = "gather"
    /\ UNCHANGED <<max_products, job_status, error_message, stats_json, sem,
                   jewels, notified, exc, crawl_note>>
    /\ UNCHANGED notPipe

\* the browser cannot be launched: crawler.crawl raises
PipeCrawlRaises ==
    /\ ppc = "crawl"
    /\ cpc = "start"
    /\ Raise("crawl")
    /\ UNCHANGED <<max_products, job_status, error_message, stats_json, sem,
                   jewels, notified, stats, products, crawl_note, tpc, tres>>
    /\ UNCHANGED notPipe

RunNext ==
    \/ PipeStart
    \/ ppc = "crawl" /\ CrawlNext
    \/ PipeCrawled
    \/ PipeCrawlRaises
    \/ \E i \in DOMAIN tpc : TaskEnter(i)
    \/ \E i \in DOMAIN tpc : TaskInfer(i)
    \/ \E i \in DOMAIN tpc : TaskDupCheck(i)
    \/ \E i \in DOMAIN tpc : TaskWrite(i)
    \/ \E i \in DOMAIN tpc : TaskCount(i)
    \/ \E u \in ProductUrls : OtherJobInsert(u)
    \/ PipeFinalize
    \/ PipeNotify
    \/ PipeHandler

Distinct(s) == \A i, j \in DOMAIN s : s[i] = s[j] => i = j

\* C28: at the end of every run products_stored <= products_found <=
\* pages_crawled <= page budget, where pages_crawled is the size of the visited
\* set (every URL a worker claimed, also one whose fetch failed), every found
\* product's URL is in the visited set, and the found products have pairwise
\* distinct URLs.
C28_CountersOrdered ==
    (ppc = "done" /\ stats # Unbound) =>
        /\ stats.products_stored <= stats.products_found
        /\ stats.products_found <= stats.pages_crawled
        /\ stats.pages_crawled <= max_pages
        /\ exc # "crawl" =>
              /\ stats.pages_crawled = Cardinality(visited_urls)
              /\ stats.products_found = Len(crawl_products)
        /\ job_status = SUCCESS => stats_json = stats
        /\ \A i \in DOMAIN crawl_products : crawl_products[i] \in visited_urls
        /\ Distinct(crawl_products)

\* a finished run on a budget of two pages: both claimed, one of them a
\* product that was stored, the other one not a product
C28_Witness ==
    /\ ppc = "done" /\ job_status = SUCCESS
    /\ stats_json.products_stored = 1
    /\ stats_json.products_found = 1
    /\ stats_json.pages_crawled = 2
    /\ max_pages = 2

\* ------------------------------------------------------- specifications
SpecPipeline == PipeInit /\ [][PipeNext]_vars
SpecCap == CapInit /\ [][CapNext]_vars
SpecRun == RunInit /\ [][RunNext]_vars
SpecClassify == ClsInit /\ [][ClsNext]_vars
SpecCrawl == CrawlInit /\ [][CrawlNext]_vars
SpecSitemap == SitemapInit /\ [][SitemapNext]_vars
SpecInfer == InferInit /\ [][InferNext]_vars
SpecLinks == LinksInit /\ [][LinksNext]_vars
SpecNormalizer == NormalizerInit /\ [][NormalizerNext]_vars
SpecPriority == PriorityInit /\ [][PriorityNext]_vars
SpecValidate == ValidateInit /\ [][ValidateNext]_vars

====
